---- MODULE Spec2Model ----
(***************************************************************************)
(* A model of @loopstack/sandbox-filesystem: seven tools, each of which    *)
(* builds one command (write: up to two), hands it to the sandbox command  *)
(* executor, and maps {exitCode, stdout, stderr} back to a result or an    *)
(* error.                                                                  *)
(*                                                                         *)
(* A string is a sequence of one-character strings, so that escaping,      *)
(* splitting, trimming and pattern matching are computed character by      *)
(* character, the way the TypeScript source computes them.                 *)
(***************************************************************************)
EXTENDS Integers, Sequences, FiniteSets, TLC

VARIABLES
    pc,       \* where the invocation stands: "idle", "mkdir", "await", "done", "failed"
    op,       \* the tool invoked: "list", "write", "read", ...
    args,     \* the validated request
    cmds,     \* the commands this invocation has handed to the executor, in order
    resp,     \* the executor's answer to the last command
    result,   \* the data of the ToolResult returned
    error,    \* the message of the Error thrown (<<>>: none)
    listing,  \* what find printed, line by line, before it became stdout text
    sandbox,  \* the container's filesystem: its directories and its files' bytes
    lastWrite \* history: the request of the write that last returned, if none failed since

vars ==
    <<pc, op, args, cmds, resp, result, error, listing, sandbox, lastWrite>>

(***************************************************************************)
(* Bounds of the model.                                                    *)
(***************************************************************************)
MaxLines == 3

(***************************************************************************)
(* Characters and strings (String.prototype.trim, split, includes; the     *)
(* regular-expression classes \s, \S, \d and .).                           *)
(***************************************************************************)
IsSpace(c) == c \in {" ", "\t", "\n", "\r"}

IsDigit(c) == c \in {"0", "1", "2", "3", "4", "5", "6", "7", "8", "9"}

\* The characters the regular expression's . does not match.
IsLineTerminator(c) == c \in {"\n", "\r"}

DigitValue(c) ==
    CASE c = "0" -> 0 [] c = "1" -> 1 [] c = "2" -> 2 [] c = "3" -> 3
      [] c = "4" -> 4 [] c = "5" -> 5 [] c = "6" -> 6 [] c = "7" -> 7
      [] c = "8" -> 8 [] c = "9" -> 9

RECURSIVE TrimStart(_)
TrimStart(s) == IF s # <<>> /\ IsSpace(Head(s)) THEN TrimStart(Tail(s)) ELSE s

RECURSIVE TrimEnd(_)
TrimEnd(s) ==
    IF s # <<>> /\ IsSpace(s[Len(s)]) THEN TrimEnd(SubSeq(s, 1, Len(s) - 1)) ELSE s

\* String.prototype.trim
Trim(s) == TrimEnd(TrimStart(s))

\* The first position of s from i on that holds sep (Len(s) + 1: none).
RECURSIVE IndexFrom(_, _, _)
IndexFrom(s, sep, i) ==
    IF i > Len(s) \/ s[i] = sep THEN i ELSE IndexFrom(s, sep, i + 1)

\* String.prototype.split with a one-character separator
RECURSIVE Split(_, _)
Split(s, sep) ==
    LET i == IndexFrom(s, sep, 1)
    IN  IF i > Len(s) THEN <<s>>
        ELSE <<SubSeq(s, 1, i - 1)>> \o Split(SubSeq(s, i + 1, Len(s)), sep)

\* String.prototype.includes
Includes(s, t) ==
    \E i \in 0..(Len(s) - Len(t)) : SubSeq(s, i + 1, i + Len(t)) = t

\* parseInt(s, 10) of a string of decimal digits
RECURSIVE ParseInt(_)
ParseInt(s) ==
    IF s = <<>> THEN 0
    ELSE 10 * ParseInt(SubSeq(s, 1, Len(s) - 1)) + DigitValue(s[Len(s)])

\* The number of consecutive whitespace characters of s from position i on.
RECURSIVE SpaceRun(_, _)
SpaceRun(s, i) == IF i <= Len(s) /\ IsSpace(s[i]) THEN 1 + SpaceRun(s, i + 1) ELSE 0

\* The number of consecutive decimal digits of s from position i on.
RECURSIVE DigitRun(_, _)
DigitRun(s, i) == IF i <= Len(s) /\ IsDigit(s[i]) THEN 1 + DigitRun(s, i + 1) ELSE 0

RECURSIVE Flatten(_)
Flatten(ss) == IF ss = <<>> THEN <<>> ELSE Head(ss) \o Flatten(Tail(ss))

\* All sequences over S of length at most n.
RECURSIVE SeqsUpTo(_, _)
SeqsUpTo(S, n) ==
    IF n = 0 THEN {<<>>}
    ELSE LET shorter == SeqsUpTo(S, n - 1)
         IN  shorter \cup {Append(q, x) : q \in {r \in shorter : Len(r) = n - 1}, x \in S}

(***************************************************************************)
(* Text as bytes: Buffer.from(s, "utf8"), Buffer.toString("base64"),       *)
(* Buffer.from(s, "base64").  A character outside ASCII, and the grave     *)
(* accent, which a TLA+ string cannot hold, is written "U+<hex>".          *)
(***************************************************************************)
Ascii ==
    <<" ", "!", "\"", "#", "$", "%", "&", "'", "(", ")", "*", "+", ",", "-",
      ".", "/", "0", "1", "2", "3", "4", "5", "6", "7", "8", "9", ":", ";", "<",
      "=", ">", "?", "@", "A", "B", "C", "D", "E", "F", "G", "H", "I", "J", "K",
      "L", "M", "N", "O", "P", "Q", "R", "S", "T", "U", "V", "W", "X", "Y", "Z",
      "[", "\\", "]", "^", "_", "U+0060", "a", "b", "c", "d", "e", "f", "g", "h", "i",
      "j", "k", "l", "m", "n", "o", "p", "q", "r", "s", "t", "u", "v", "w", "x",
      "y", "z", "{", "|", "}", "~">>

\* U+D800 is a surrogate with no partner, which a JavaScript string can hold.
NonAscii == {"U+00E9", "U+20AC", "U+1F600", "U+D800", "U+FFFD"}

CodePoint(c) ==
    CASE c = "\t" -> 9
      [] c = "\n" -> 10
      [] c = "\r" -> 13
      [] c = "U+00E9" -> 233
      [] c = "U+20AC" -> 8364
      [] c = "U+1F600" -> 128512
      [] c = "U+D800" -> 55296
      [] c = "U+FFFD" -> 65533
      [] OTHER -> 31 + (CHOOSE i \in 1..Len(Ascii) : Ascii[i] = c)

CharOf(cp) ==
    CASE cp = 9 -> "\t"
      [] cp = 10 -> "\n"
      [] cp = 13 -> "\r"
      [] cp \in 32..126 -> Ascii[cp - 31]
      [] cp = 233 -> "U+00E9"
      [] cp = 8364 -> "U+20AC"
      [] cp = 128512 -> "U+1F600"
      [] cp = 55296 -> "U+D800"
      [] OTHER -> "U+FFFD"

\* A lone surrogate is encoded as U+FFFD.
Utf8OfCodePoint(cp) ==
    IF cp \in 55296..57343 THEN <<239, 191, 189>>
    ELSE IF cp < 128 THEN <<cp>>
    ELSE IF cp < 2048 THEN <<192 + (cp \div 64), 128 + (cp % 64)>>
    ELSE IF cp < 65536
    THEN <<224 + (cp \div 4096), 128 + ((cp \div 64) % 64), 128 + (cp % 64)>>
    ELSE <<240 + (cp \div 262144), 128 + ((cp \div 4096) % 64),
           128 + ((cp \div 64) % 64), 128 + (cp % 64)>>

\* Buffer.from(s, "utf8")
RECURSIVE Utf8Encode(_)
Utf8Encode(s) ==
    IF s = <<>> THEN <<>>
    ELSE Utf8OfCodePoint(CodePoint(Head(s))) \o Utf8Encode(Tail(s))

\* Well-formed UTF-8 read back as text (the executor's stdout string).
RECURSIVE Utf8Decode(_)
Utf8Decode(b) ==
    IF b = <<>> THEN <<>>
    ELSE IF b[1] < 128 THEN <<CharOf(b[1])>> \o Utf8Decode(Tail(b))
    ELSE IF b[1] < 224 /\ Len(b) >= 2
    THEN <<CharOf((b[1] - 192) * 64 + (b[2] - 128))>> \o Utf8Decode(SubSeq(b, 3, Len(b)))
    ELSE IF b[1] < 240 /\ Len(b) >= 3
    THEN <<CharOf((b[1] - 224) * 4096 + (b[2] - 128) * 64 + (b[3] - 128))>>
         \o Utf8Decode(SubSeq(b, 4, Len(b)))
    ELSE IF Len(b) >= 4
    THEN <<CharOf((b[1] - 240) * 262144 + (b[2] - 128) * 4096
                  + (b[3] - 128) * 64 + (b[4] - 128))>>
         \o Utf8Decode(SubSeq(b, 5, Len(b)))
    ELSE <<"U+FFFD">>

B64Alphabet ==
    <<"A", "B", "C", "D", "E", "F", "G", "H", "I", "J", "K", "L", "M", "N", "O",
      "P", "Q", "R", "S", "T", "U", "V", "W", "X", "Y", "Z", "a", "b", "c", "d",
      "e", "f", "g", "h", "i", "j", "k", "l", "m", "n", "o", "p", "q", "r", "s",
      "t", "u", "v", "w", "x", "y", "z", "0", "1", "2", "3", "4", "5", "6", "7",
      "8", "9", "+", "/">>

IsB64Digit(c) == \E i \in 1..64 : B64Alphabet[i] = c

B64Value(c) == (CHOOSE i \in 1..64 : B64Alphabet[i] = c) - 1

\* buffer.toString("base64")
RECURSIVE B64Encode(_)
B64Encode(b) ==
    IF b = <<>> THEN <<>>
    ELSE IF Len(b) = 1
    THEN <<B64Alphabet[(b[1] \div 4) + 1], B64Alphabet[((b[1] % 4)) * 16 + 1], "=", "=">>
    ELSE IF Len(b) = 2
    THEN <<B64Alphabet[(b[1] \div 4) + 1],
           B64Alphabet[((b[1] % 4)) * 16 + (b[2] \div 16) + 1],
           B64Alphabet[((b[2] % 16)) * 4 + 1], "=">>
    ELSE <<B64Alphabet[(b[1] \div 4) + 1],
           B64Alphabet[((b[1] % 4)) * 16 + (b[2] \div 16) + 1],
           B64Alphabet[((b[2] % 16)) * 4 + (b[3] \div 64) + 1],
           B64Alphabet[(b[3] % 64) + 1]>>
         \o B64Encode(SubSeq(b, 4, Len(b)))

\* The bytes of a run of 6-bit values; a last group of 2 or 3 values gives
\* 1 or 2 bytes, a single left-over value none.
RECURSIVE BytesOfSextets(_)
BytesOfSextets(v) ==
    IF Len(v) < 2 THEN <<>>
    ELSE IF Len(v) = 2 THEN <<v[1] * 4 + (v[2] \div 16)>>
    ELSE IF Len(v) = 3
    THEN <<v[1] * 4 + (v[2] \div 16), ((v[2] % 16)) * 16 + (v[3] \div 4)>>
    ELSE <<v[1] * 4 + (v[2] \div 16), ((v[2] % 16)) * 16 + (v[3] \div 4),
           ((v[3] % 4)) * 64 + v[4]>>
         \o BytesOfSextets(SubSeq(v, 5, Len(v)))

\* Node's base64 decoder reads the URL-safe digits - and _ as 62 and 63,
\* skips every other character that is no base64 digit, and stops at the
\* first =.
RECURSIVE NodeSextets(_)
NodeSextets(s) ==
    IF s = <<>> \/ Head(s) = "=" THEN <<>>
    ELSE IF IsB64Digit(Head(s)) THEN <<B64Value(Head(s))>> \o NodeSextets(Tail(s))
    ELSE IF Head(s) = "-" THEN <<62>> \o NodeSextets(Tail(s))
    ELSE IF Head(s) = "_" THEN <<63>> \o NodeSextets(Tail(s))
    ELSE NodeSextets(Tail(s))

\* Buffer.from(s, "base64")
BufferFromBase64(s) == BytesOfSextets(NodeSextets(s))

\* content.replace(/[^A-Za-z0-9+/=]/g, "")
IsB64OrPad(c) == IsB64Digit(c) \/ c = "="

\* Base64 content spliced in as it is given.
StripNonBase64_Nothing(s) == s

StripNonBase64(s) == SelectSeq(s, IsB64OrPad)

\* String.prototype.toLowerCase
LowerChar(c) ==
    IF c \in {"A", "B", "C", "D", "E", "F", "G", "H", "I", "J", "K", "L", "M",
              "N", "O", "P", "Q", "R", "S", "T", "U", "V", "W", "X", "Y", "Z"}
    THEN CharOf(CodePoint(c) + 32)
    ELSE c

ToLowerCase(s) == [i \in 1..Len(s) |-> LowerChar(s[i])]

(***************************************************************************)
(* path.posix.dirname                                                      *)
(***************************************************************************)
\* The position of the slash that ends the directory part, scanning from the
\* end and skipping the slashes that trail the path (0: none).
RECURSIVE DirnameEnd(_, _, _)
DirnameEnd(p, i, matchedSlash) ==
    IF i < 2 THEN 0
    ELSE IF p[i] = "/"
    THEN (IF matchedSlash THEN DirnameEnd(p, i - 1, TRUE) ELSE i)
    ELSE DirnameEnd(p, i - 1, FALSE)

Dirname(p) ==
    LET hasRoot == p # <<>> /\ p[1] = "/"
        end == DirnameEnd(p, Len(p), TRUE)
    IN  IF p = <<>> THEN <<".">>
        ELSE IF end = 0 THEN (IF hasRoot THEN <<"/">> ELSE <<".">>)
        ELSE IF hasRoot /\ end = 2 THEN <<"/", "/">>
        ELSE SubSeq(p, 1, end - 1)

(***************************************************************************)
(* The escaping of a path spliced into a shell script:                     *)
(*     '${p.replace(/'/g, "'\\''")}'                                       *)
(***************************************************************************)
\* replace("'", ...) in place of replace(/'/g, ...): only the first quote.
ReplaceQuotes_FirstOnly(p) ==
    IF \A i \in 1..Len(p) : p[i] # "'" THEN p
    ELSE LET i == CHOOSE k \in 1..Len(p) : p[k] = "'" /\ \A j \in 1..(k - 1) : p[j] # "'"
         IN  SubSeq(p, 1, i - 1) \o <<"'", "\\", "'", "'">> \o SubSeq(p, i + 1, Len(p))

RECURSIVE ReplaceQuotes(_)
ReplaceQuotes(p) ==
    IF p = <<>> THEN <<>>
    ELSE (IF Head(p) = "'" THEN <<"'", "\\", "'", "'">> ELSE <<Head(p)>>)
         \o ReplaceQuotes(Tail(p))

ShellQuote(p) == <<"'">> \o ReplaceQuotes(p) \o <<"'">>

(***************************************************************************)
(* The invocation record shared by all tools.                              *)
(***************************************************************************)
ContainerId == <<"c", "1">>

NoResp == [exitCode |-> -1, stdout |-> <<>>, stderr |-> <<>>]

NoResult == [kind |-> "none"]

\* A container in which nothing has been created yet.
EmptySandbox == [dirs |-> {}, files |-> <<>>]

NoWrite == [path |-> <<>>, content |-> <<>>, encoding |-> "none"]

Command(executable, argv, timeout) ==
    [containerId |-> ContainerId, executable |-> executable, args |-> argv,
     timeout |-> timeout]

\* `${stderr || "Unknown error"}`
StderrOrUnknown(stderr) == IF stderr = <<>> THEN <<"Unknown error">> ELSE stderr

Init ==
    /\ pc = "idle"
    /\ op = "none"
    /\ args = [path |-> <<>>]
    /\ cmds = <<>>
    /\ resp = NoResp
    /\ result = NoResult
    /\ error = <<>>
    /\ listing = <<>>
    /\ sandbox = EmptySandbox
    /\ lastWrite = NoWrite

\* The invocation has returned or thrown; its transient state is dropped.
Return ==
    /\ pc \in {"done", "failed"}
    /\ pc' = "idle"
    /\ op' = "none"
    /\ args' = [path |-> <<>>]
    /\ cmds' = <<>>
    /\ resp' = NoResp
    /\ result' = NoResult
    /\ error' = <<>>
    /\ listing' = <<>>
    /\ UNCHANGED <<sandbox, lastWrite>>

(***************************************************************************)
(* SandboxListDirectory                                                    *)
(***************************************************************************)
ListScript(dirPath, recursive) ==
    IF recursive
    THEN <<"f", "i", "n", "d", " ">> \o ShellQuote(dirPath)
         \o <<" ", "-", "p", "r", "i", "n", "t", "f", " ", "'", "%", "y", " ",
              "%", "s", " ", "%", "p", "\\", "n", "'">>
    ELSE <<"f", "i", "n", "d", " ">> \o ShellQuote(dirPath)
         \o <<" ", "-", "m", "a", "x", "d", "e", "p", "t", "h", " ", "1", " ",
              "-", "p", "r", "i", "n", "t", "f", " ", "'", "%", "y", " ", "%",
              "s", " ", "%", "p", "\\", "n", "'">>

\* parseFileType with the symlink case left out.
List_parseFileType_NoSymlink(typeChar) ==
    CASE typeChar = "f" -> "file"
      [] typeChar = "d" -> "directory"
      [] OTHER -> "other"

List_parseFileType(typeChar) ==
    CASE typeChar = "f" -> "file"
      [] typeChar = "d" -> "directory"
      [] typeChar = "l" -> "symlink"
      [] OTHER -> "other"

\* line.match(/^(\S)\s+(\d+)\s+(.+)$/).  Each quantifier is greedy; \s+ and
\* \d+ cannot give characters back to what follows them except the last \s+,
\* which gives back as few as (.+) needs; . matches no line terminator and $
\* only the end of the line.
LineMatch(line) ==
    LET n  == Len(line)
        w1 == SpaceRun(line, 2)
        d  == DigitRun(line, 2 + w1)
        t  == 2 + w1 + d
        w2 == SpaceRun(line, t)
        r  == t + w2
        fullPath == IF r <= n THEN SubSeq(line, r, n) ELSE SubSeq(line, n, n)
        matched ==
            /\ n >= 1
            /\ ~IsSpace(line[1])
            /\ w1 >= 1
            /\ d >= 1
            /\ w2 >= (IF r <= n THEN 1 ELSE 2)
            /\ \A i \in 1..Len(fullPath) : ~IsLineTerminator(fullPath[i])
    IN  IF matched
        THEN [ok |-> TRUE, typeChar |-> line[1],
              sizeStr |-> SubSeq(line, 2 + w1, t - 1), fullPath |-> fullPath]
        ELSE [ok |-> FALSE, typeChar |-> "", sizeStr |-> <<>>, fullPath |-> <<>>]

\* fullPath.split("/").pop() || fullPath, and targetPath.split("/").pop() || targetPath
BaseName(p) ==
    LET parts == Split(p, "/")
        last  == parts[Len(parts)]
    IN  IF last = <<>> THEN p ELSE last

NonBlank(line) == Trim(line) # <<>>

RECURSIVE ListParseLines(_, _)
ListParseLines(lines, dirPath) ==
    IF lines = <<>> THEN <<>>
    ELSE LET m == LineMatch(Head(lines))
         IN  (IF m.ok /\ m.fullPath # dirPath
              THEN <<[name |-> BaseName(m.fullPath),
                      type |-> List_parseFileType(m.typeChar),
                      size |-> ParseInt(m.sizeStr),
                      path |-> m.fullPath]>>
              ELSE <<>>)
             \o ListParseLines(Tail(lines), dirPath)

ListEntries(stdout, dirPath) ==
    ListParseLines(SelectSeq(Split(stdout, "\n"), NonBlank), dirPath)

(***************************************************************************)
(* SandboxWriteFile                                                        *)
(***************************************************************************)
\* base64Content
Base64Content(content, encoding) ==
    IF encoding = "utf8" THEN B64Encode(Utf8Encode(content)) ELSE StripNonBase64(content)

\* `echo '${base64Content}' | base64 -d > '${filePath.replace(/'/g, "'\\''")}'`
WriteScript(base64Content, filePath) ==
    <<"e", "c", "h", "o", " ", "'">> \o base64Content
    \o <<"'", " ", "|", " ", "b", "a", "s", "e", "6", "4", " ", "-", "d", " ", ">", " ">>
    \o ShellQuote(filePath)

\* The file step with the timeout of the parent-directory step.
WriteCommand_ShortTimeout(a) ==
    Command("sh", <<<<"-", "c">>, WriteScript(Base64Content(a.content, a.encoding), a.path)>>,
            5000)

WriteCommand(a) ==
    Command("sh", <<<<"-", "c">>, WriteScript(Base64Content(a.content, a.encoding), a.path)>>,
            30000)

BytesWritten(content, encoding) ==
    IF encoding = "utf8" THEN Len(Utf8Encode(content)) ELSE Len(BufferFromBase64(content))

\* A parent-directory step whatever the dirname is.
NeedsParentDir_Always(a) == a.createParentDirs

\* A parent-directory step for the root as well.
NeedsParentDir_RootToo(a) == a.createParentDirs /\ Dirname(a.path) # <<".">>

NeedsParentDir(a) ==
    a.createParentDirs /\ Dirname(a.path) # <<"/">> /\ Dirname(a.path) # <<".">>

WriteStart(Paths, Contents, Encodings) ==
    /\ pc = "idle"
    /\ \E path \in Paths, content \in Contents, encoding \in Encodings,
          createParentDirs \in BOOLEAN :
        LET a == [containerId |-> ContainerId, path |-> path, content |-> content,
                  encoding |-> encoding, createParentDirs |-> createParentDirs]
        IN  /\ op' = "write"
            /\ args' = a
            /\ IF NeedsParentDir(a)
               THEN /\ pc' = "mkdir"
                    /\ cmds' = <<Command("mkdir", <<<<"-", "p">>, Dirname(path)>>, 5000)>>
               ELSE /\ pc' = "await"
                    /\ cmds' = <<WriteCommand(a)>>
            /\ UNCHANGED <<resp, result, error, listing, sandbox, lastWrite>>

\* The file step dispatched whatever the parent-directory command returned.
WriteMkdirFinish_Continue(R) ==
    /\ pc = "mkdir"
    /\ op = "write"
    /\ \E r \in R :
        /\ resp' = [exitCode |-> r.exitCode, stdout |-> r.stdout, stderr |-> r.stderr]
        /\ sandbox' = r.sandbox
        /\ pc' = "await"
        /\ cmds' = Append(cmds, WriteCommand(args))
        /\ UNCHANGED <<op, args, result, error, listing, lastWrite>>

\* The parent-directory command has returned.
WriteMkdirFinish(R) ==
    /\ pc = "mkdir"
    /\ op = "write"
    /\ \E r \in R :
        /\ resp' = [exitCode |-> r.exitCode, stdout |-> r.stdout, stderr |-> r.stderr]
        /\ sandbox' = r.sandbox
        /\ IF r.exitCode # 0
           THEN /\ pc' = "failed"
                /\ error' = <<"Failed to create parent directory ">> \o Dirname(args.path)
                            \o <<": ">> \o StderrOrUnknown(r.stderr)
                /\ UNCHANGED cmds
           ELSE /\ pc' = "await"
                /\ cmds' = Append(cmds, WriteCommand(args))
                /\ UNCHANGED error
        /\ UNCHANGED <<op, args, result, listing, lastWrite>>

\* The file-writing command has returned.  The history lastWrite is left to
\* the specification, which either follows the writes or leaves it alone.
WriteFinish(R) ==
    /\ pc = "await"
    /\ op = "write"
    /\ \E r \in R :
        /\ resp' = [exitCode |-> r.exitCode, stdout |-> r.stdout, stderr |-> r.stderr]
        /\ sandbox' = r.sandbox
        /\ IF r.exitCode # 0
           THEN /\ pc' = "failed"
                /\ error' = <<"Failed to write file ">> \o args.path \o <<": ">>
                            \o StderrOrUnknown(r.stderr)
                /\ UNCHANGED result
           ELSE /\ pc' = "done"
                /\ result' = [kind |-> "write", path |-> args.path,
                              bytesWritten |-> BytesWritten(args.content, args.encoding)]
                /\ UNCHANGED error
        /\ UNCHANGED <<op, args, cmds, listing>>

(***************************************************************************)
(* SandboxReadFile                                                         *)
(***************************************************************************)
ReadExecutable(encoding) ==
    IF encoding = "base64" THEN "base64" ELSE "cat"

ReadStart(Paths, Encodings) ==
    /\ pc = "idle"
    /\ \E path \in Paths, encoding \in Encodings :
        /\ pc' = "await"
        /\ op' = "read"
        /\ args' = [containerId |-> ContainerId, path |-> path, encoding |-> encoding]
        /\ cmds' = <<Command(ReadExecutable(encoding), <<path>>, 30000)>>
        /\ UNCHANGED <<resp, result, error, listing, sandbox, lastWrite>>

ReadFinish(R) ==
    /\ pc = "await"
    /\ op = "read"
    /\ \E r \in R :
        /\ resp' = [exitCode |-> r.exitCode, stdout |-> r.stdout, stderr |-> r.stderr]
        /\ sandbox' = r.sandbox
        /\ IF r.exitCode # 0
           THEN /\ pc' = "failed"
                /\ error' = <<"Failed to read file ">> \o args.path \o <<": ">>
                            \o StderrOrUnknown(r.stderr)
                /\ UNCHANGED result
           ELSE /\ pc' = "done"
                /\ result' = [kind |-> "read", content |-> r.stdout,
                              encoding |-> args.encoding]
                /\ UNCHANGED error
        /\ UNCHANGED <<op, args, cmds, listing, lastWrite>>

(***************************************************************************)
(* SandboxExists                                                           *)
(***************************************************************************)
NOT_FOUND == <<"N", "O", "T", "_", "F", "O", "U", "N", "D">>

\* `if [ -e '...' ]; then stat -c '%F' '...'; else echo 'NOT_FOUND'; fi`
ExistsScript(targetPath) ==
    <<"i", "f", " ", "[", " ", "-", "e", " ">> \o ShellQuote(targetPath)
    \o <<" ", "]", ";", " ", "t", "h", "e", "n", " ", "s", "t", "a", "t", " ", "-",
         "c", " ", "'", "%", "F", "'", " ">>
    \o ShellQuote(targetPath)
    \o <<";", " ", "e", "l", "s", "e", " ", "e", "c", "h", "o", " ", "'">> \o NOT_FOUND
    \o <<"'", ";", " ", "f", "i">>

\* A classifier that looks for "regular file" where the code looks for "regular".
Exists_parseFileType_RegularFile(statOutput) ==
    LET lower == ToLowerCase(statOutput)
    IN  IF Includes(lower, <<"r", "e", "g", "u", "l", "a", "r", " ", "f", "i", "l", "e">>) THEN "file"
        ELSE IF Includes(lower, <<"d", "i", "r", "e", "c", "t", "o", "r", "y">>) THEN "directory"
        ELSE IF Includes(lower, <<"s", "y", "m", "b", "o", "l", "i", "c", " ", "l", "i", "n", "k">>) THEN "symlink"
        ELSE "other"

Exists_parseFileType(statOutput) ==
    LET lower == ToLowerCase(statOutput)
    IN  IF Includes(lower, <<"r", "e", "g", "u", "l", "a", "r">>) THEN "file"
        ELSE IF Includes(lower, <<"d", "i", "r", "e", "c", "t", "o", "r", "y">>)
        THEN "directory"
        ELSE IF Includes(lower, <<"s", "y", "m", "b", "o", "l", "i", "c", " ", "l", "i",
                                  "n", "k">>)
        THEN "symlink"
        ELSE "other"

\* The result without the trim() of stdout.
ExistsResult_NoTrim(targetPath, stdout) ==
    LET exists == stdout # NOT_FOUND
    IN  [kind |-> "exists", path |-> targetPath, exists |-> exists,
         type |-> IF exists THEN Exists_parseFileType(stdout) ELSE "null"]

ExistsResult(targetPath, stdout) ==
    LET output == Trim(stdout)
        exists == output # NOT_FOUND
    IN  [kind |-> "exists", path |-> targetPath, exists |-> exists,
         type |-> IF exists THEN Exists_parseFileType(output) ELSE "null"]

ExistsStart(Paths) ==
    /\ pc = "idle"
    /\ \E path \in Paths :
        /\ pc' = "await"
        /\ op' = "exists"
        /\ args' = [containerId |-> ContainerId, path |-> path]
        /\ cmds' = <<Command("sh", <<<<"-", "c">>, ExistsScript(path)>>, 10000)>>
        /\ UNCHANGED <<resp, result, error, listing, sandbox, lastWrite>>

ExistsFinish(R) ==
    /\ pc = "await"
    /\ op = "exists"
    /\ \E r \in R :
        /\ resp' = [exitCode |-> r.exitCode, stdout |-> r.stdout, stderr |-> r.stderr]
        /\ sandbox' = r.sandbox
        /\ IF r.exitCode # 0
           THEN /\ pc' = "failed"
                /\ error' = <<"Failed to check existence of ">> \o args.path \o <<": ">>
                            \o StderrOrUnknown(r.stderr)
                /\ UNCHANGED result
           ELSE /\ pc' = "done"
                /\ result' = ExistsResult(args.path, r.stdout)
                /\ UNCHANGED error
        /\ UNCHANGED <<op, args, cmds, listing, lastWrite>>

(***************************************************************************)
(* The sandbox's side of list: what                                        *)
(*     find <dir> [-maxdepth 1] -printf '%y %s %p\n'                       *)
(* prints.  find prints one line per entry it visits, the queried          *)
(* directory itself included, with %p the path as find was given it; the   *)
(* executor may hand back any other text as well.                          *)
(***************************************************************************)
FindRecord(kind, y, s, p) == [kind |-> kind, y |-> y, s |-> s, p |-> p]

\* The line find prints for the directory it was started on.
FindSelf(dirPath) == FindRecord("self", "d", <<"4", "0", "9", "6">>, dirPath)

\* A line of stdout that find's format did not produce.
RawLine(text) == FindRecord("raw", "", <<>>, text)

\* %p of a member: the start point, a "/" unless it ends in one, the name.
JoinPath(dirPath, name) ==
    IF dirPath # <<>> /\ dirPath[Len(dirPath)] = "/"
    THEN dirPath \o name
    ELSE dirPath \o <<"/">> \o name

\* '%y %s %p'
FindLine(item) ==
    IF item.kind = "raw" THEN item.p
    ELSE <<item.y>> \o <<" ">> \o item.s \o <<" ">> \o item.p

RECURSIVE FindStdout(_)
FindStdout(items) ==
    IF items = <<>> THEN <<>>
    ELSE FindLine(Head(items)) \o <<"\n">> \o FindStdout(Tail(items))

ListPaths == {<<"/", "d">>, <<" ", "d">>, <<"d", "/">>}

FindItems(dirPath) ==
    {FindSelf(dirPath),
     FindRecord("rec", "f", <<"1", "0">>,
                JoinPath(dirPath, <<"f", "i", "l", "e", ".", "t", "x", "t">>)),
     FindRecord("rec", "d", <<"4", "0", "9", "6">>, JoinPath(dirPath, <<"s", "u", "b">>)),
     FindRecord("rec", "l", <<"7">>, JoinPath(dirPath, <<"l", "n", "k">>)),
     FindRecord("rec", "p", <<"0">>, JoinPath(dirPath, <<"f", "i", "f", "o">>)),
     FindRecord("rec", "?", <<"0">>, JoinPath(dirPath, <<"b", "l", "k">>)),
     FindRecord("rec", "f", <<"3">>, JoinPath(dirPath, <<"a", "\r", "b">>)),
     RawLine(<<>>),
     RawLine(<<"t", "o", "t", "a", "l", " ", "1", "2">>),
     RawLine(<<"f", " ", "x", " ", "/", "d", "/", "y">>)}

ListResponses(dirPath) ==
    {[exitCode |-> 0, stdout |-> FindStdout(l), stderr |-> <<>>, listing |-> l] :
        l \in SeqsUpTo(FindItems(dirPath), MaxLines)}
    \cup {[exitCode |-> e, stdout |-> <<>>, stderr |-> s, listing |-> <<>>] :
            e \in {1, 2},
            s \in {<<>>, <<"f", "i", "n", "d", ":", " ", "N", "o", " ", "s", "u",
                           "c", "h", " ", "f", "i", "l", "e">>}}

ListStart(Paths) ==
    /\ pc = "idle"
    /\ \E path \in Paths, recursive \in BOOLEAN :
        /\ pc' = "await"
        /\ op' = "list"
        /\ args' = [containerId |-> ContainerId, path |-> path, recursive |-> recursive]
        /\ cmds' = <<Command("sh", <<<<"-", "c">>, ListScript(path, recursive)>>, 30000)>>
        /\ UNCHANGED <<resp, result, error, listing, sandbox, lastWrite>>

ListFinish(R) ==
    /\ pc = "await"
    /\ op = "list"
    /\ \E r \in R :
        /\ resp' = [exitCode |-> r.exitCode, stdout |-> r.stdout, stderr |-> r.stderr]
        /\ listing' = r.listing
        /\ IF r.exitCode # 0
           THEN /\ pc' = "failed"
                /\ error' = <<"Failed to list directory ">> \o args.path \o <<": ">>
                            \o StderrOrUnknown(r.stderr)
                /\ UNCHANGED result
           ELSE /\ pc' = "done"
                /\ result' = [kind |-> "list", path |-> args.path,
                              entries |-> ListEntries(r.stdout, args.path)]
                /\ UNCHANGED error
        /\ UNCHANGED <<op, args, cmds, sandbox, lastWrite>>

NextList == ListStart(ListPaths) \/ ListFinish(ListResponses(args.path)) \/ Return

SpecList == Init /\ [][NextList]_vars

ListDone == pc = "done" /\ op = "list"

(***************************************************************************)
(* C8: a successful list never returns the entry find prints for the       *)
(* queried directory itself: the entries are those of the same output      *)
(* without that line, and none has the queried path.                       *)
(***************************************************************************)
NotSelf(item) == item.kind # "self"

ListExcludesSelf ==
    ListDone =>
        /\ result.entries = ListEntries(FindStdout(SelectSeq(listing, NotSelf)), args.path)
        /\ \A i \in 1..Len(result.entries) : result.entries[i].path # args.path

(***************************************************************************)
(* C9: each entry's type is file for code f, directory for d, symlink for  *)
(* l and other for every other code, and the code of a line decides        *)
(* neither whether list raises nor whether the line yields an entry.       *)
(***************************************************************************)
Accepted(item) == ListEntries(FindLine(item), args.path) # <<>>

ExpectedType(y) ==
    IF y = "f" THEN "file"
    ELSE IF y = "d" THEN "directory"
    ELSE IF y = "l" THEN "symlink"
    ELSE "other"

ListTypeMapping ==
    /\ (op = "list" /\ resp.exitCode = 0) => pc = "done"
    /\ ListDone =>
        LET acc == SelectSeq(listing, Accepted)
        IN  /\ Len(result.entries) = Len(acc)
            /\ \A i \in 1..Len(acc) :
                   result.entries[i].type = ExpectedType(FindLine(acc[i])[1])
            /\ \A i \in 1..Len(listing) :
                   listing[i].kind = "rec" =>
                       Accepted(listing[i]) = Accepted([listing[i] EXCEPT !.y = "f"])

ListTypeMappingWitness ==
    /\ ListDone
    /\ \E i, j, k \in 1..Len(result.entries) :
           /\ result.entries[i].type = "other"
           /\ result.entries[j].type = "symlink"
           /\ result.entries[k].type = "file"
    /\ \E i \in 1..Len(listing) : listing[i].y = "?" /\ Accepted(listing[i])

(***************************************************************************)
(* C10: with exit code 0 list succeeds whatever stdout holds; a line not   *)
(* of the shape <non-whitespace char> <whitespace> <digits> <whitespace>   *)
(* <non-empty rest> yields no entry, every line of that shape other than   *)
(* the directory's own is returned, and there are never more entries than  *)
(* non-blank lines.                                                        *)
(***************************************************************************)
HasShape(line) ==
    \E i, j, k \in 2..Len(line) :
        /\ i <= j /\ j < k /\ k < Len(line)
        /\ ~IsSpace(line[1])
        /\ \A x \in 2..i : IsSpace(line[x])
        /\ \A x \in (i + 1)..j : IsDigit(line[x])
        /\ i + 1 <= j
        /\ \A x \in (j + 1)..k : IsSpace(line[x])

ShapedItem(item) == HasShape(FindLine(item))

ShapedNotSelf(item) == HasShape(FindLine(item)) /\ item.kind # "self"

NonBlankItem(item) == NonBlank(FindLine(item))

ListSkipsMalformed ==
    (op = "list" /\ pc \in {"done", "failed"} /\ resp.exitCode = 0) =>
        /\ pc = "done"
        /\ result.entries = ListEntries(FindStdout(SelectSeq(listing, ShapedItem)), args.path)
        /\ Len(result.entries) >= Len(SelectSeq(listing, ShapedNotSelf))
        /\ Len(result.entries) <= Len(SelectSeq(listing, NonBlankItem))

(***************************************************************************)
(* The sandbox's side of the sh -c scripts: how a POSIX shell splits a     *)
(* script into words and operators.  Between single quotes every character *)
(* stands for itself; outside them a backslash makes the next character    *)
(* stand for itself, blanks separate words, | > < ; & ( ) and the newline  *)
(* are operators, and $ " * ? ~ # and the grave accent start an expansion, *)
(* a quotation, a pattern or a comment.                                    *)
(***************************************************************************)
ShWord(text) == [op |-> FALSE, text |-> text]

ShOperator(c) == [op |-> TRUE, text |-> <<c>>]

ShFlush(toks, cur, started) == IF started THEN Append(toks, ShWord(cur)) ELSE toks

\* The lexer's state: inside quotes or not, after a backslash or not, the
\* word being read, the tokens read.  ok turns FALSE when a character is
\* interpreted by the shell other than as a word character, a blank or an
\* operator.
ShStart ==
    [ok |-> TRUE, quoted |-> FALSE, escaped |-> FALSE, cur |-> <<>>, started |-> FALSE,
     tokens |-> <<>>]

ShStep(st, c) ==
    CASE ~st.ok -> st
      [] st.ok /\ st.quoted /\ c = "'" -> [st EXCEPT !.quoted = FALSE]
      [] st.ok /\ st.quoted /\ c # "'" -> [st EXCEPT !.cur = Append(@, c)]
      [] st.ok /\ ~st.quoted /\ st.escaped ->
           IF c = "\n"
           THEN [st EXCEPT !.escaped = FALSE]
           ELSE [st EXCEPT !.escaped = FALSE, !.cur = Append(@, c), !.started = TRUE]
      [] OTHER ->
           CASE c = "'" -> [st EXCEPT !.quoted = TRUE, !.started = TRUE]
             [] c = "\\" -> [st EXCEPT !.escaped = TRUE]
             [] c \in {" ", "\t"} ->
                  [st EXCEPT !.tokens = ShFlush(@, st.cur, st.started),
                             !.cur = <<>>, !.started = FALSE]
             [] c \in {"\n", ";", "|", "&", "<", ">", "(", ")"} ->
                  [st EXCEPT !.tokens = Append(ShFlush(@, st.cur, st.started), ShOperator(c)),
                             !.cur = <<>>, !.started = FALSE]
             [] c \in {"$", "\"", "*", "?", "~", "#", "U+0060"} -> [st EXCEPT !.ok = FALSE]
             [] OTHER -> [st EXCEPT !.cur = Append(@, c), !.started = TRUE]

\* The state after the characters lo..hi of the script.
RECURSIVE ShRun(_, _, _, _)
ShRun(s, lo, hi, st) ==
    IF lo > hi THEN st
    ELSE IF lo = hi THEN ShStep(st, s[lo])
    ELSE LET mid == (lo + hi) \div 2
             left == ShRun(s, lo, mid, st)
         IN  IF left.ok THEN ShRun(s, mid + 1, hi, left) ELSE left

\* A backslash at the very end stands for itself.
ShLex(script) ==
    LET st == ShRun(script, 1, Len(script), ShStart)
    IN  [ok |-> st.ok /\ ~st.quoted,
         tokens |-> ShFlush(st.tokens,
                            IF st.escaped THEN Append(st.cur, "\\") ELSE st.cur,
                            st.started \/ st.escaped)]

(***************************************************************************)
(* Paths with quotes, backslashes, blanks, newlines and shell              *)
(* metacharacters, spliced into the scripts of write, list and exists.     *)
(***************************************************************************)
MaxPathLen == 3

QuotePaths == SeqsUpTo({"a", "'", "\\", " ", "\n", ";", "$", "/"}, MaxPathLen)

Hello == <<"h", "e", "l", "l", "o">>

\* An executor that answers 0 or 1 and prints nothing.
BareResponses ==
    {[exitCode |-> e, stdout |-> <<>>, stderr |-> <<>>, sandbox |-> sandbox] : e \in {0, 1}}

NextQuote ==
    \/ WriteStart(QuotePaths, {Hello}, {"utf8"})
    \/ WriteMkdirFinish(BareResponses)
    \/ WriteFinish(BareResponses) /\ UNCHANGED lastWrite
    \/ ListStart(QuotePaths)
    \/ ListFinish({[exitCode |-> e, stdout |-> <<>>, stderr |-> <<>>, listing |-> <<>>] :
                      e \in {0, 1}})
    \/ ExistsStart(QuotePaths)
    \/ ExistsFinish(BareResponses)
    \/ Return

SpecQuote == Init /\ [][NextQuote]_vars

(***************************************************************************)
(* C1: wherever write, list and exists splice the path into their script,  *)
(* every quote of the path has become '\'' and the whole stands between    *)
(* single quotes, so that the shell reads the script as the intended       *)
(* commands with exactly the path as one word (twice in exists) and        *)
(* interprets no character of it.                                          *)
(***************************************************************************)
QuoteCount(p) == Cardinality({i \in 1..Len(p) : p[i] = "'"})

\* The words and operators the script is meant to be, for a literal path.
IntendedTokens(o, a) ==
    CASE o = "write" ->
           <<ShWord(<<"e", "c", "h", "o">>),
             ShWord(<<"a", "G", "V", "s", "b", "G", "8", "=">>),
             ShOperator("|"),
             ShWord(<<"b", "a", "s", "e", "6", "4">>), ShWord(<<"-", "d">>),
             ShOperator(">"), ShWord(a.path)>>
      [] o = "list" ->
           <<ShWord(<<"f", "i", "n", "d">>), ShWord(a.path)>>
           \o (IF a.recursive THEN <<>>
               ELSE <<ShWord(<<"-", "m", "a", "x", "d", "e", "p", "t", "h">>), ShWord(<<"1">>)>>)
           \o <<ShWord(<<"-", "p", "r", "i", "n", "t", "f">>),
                ShWord(<<"%", "y", " ", "%", "s", " ", "%", "p", "\\", "n">>)>>
      [] o = "exists" ->
           <<ShWord(<<"i", "f">>), ShWord(<<"[">>), ShWord(<<"-", "e">>), ShWord(a.path),
             ShWord(<<"]">>), ShOperator(";"),
             ShWord(<<"t", "h", "e", "n">>), ShWord(<<"s", "t", "a", "t">>),
             ShWord(<<"-", "c">>), ShWord(<<"%", "F">>), ShWord(a.path), ShOperator(";"),
             ShWord(<<"e", "l", "s", "e">>), ShWord(<<"e", "c", "h", "o">>),
             ShWord(NOT_FOUND), ShOperator(";"), ShWord(<<"f", "i">>)>>

\* The script text other than the spliced paths.
FixedScriptLen(o, a) ==
    CASE o = "write" -> 30
      [] o = "list" -> IF a.recursive THEN 26 ELSE 38
      [] o = "exists" -> 57

PathOccurrences(o) == IF o = "exists" THEN 2 ELSE 1

PathQuotedInScripts ==
    \A i \in 1..Len(cmds) :
        cmds[i].executable = "sh" =>
            LET script == cmds[i].args[2]
                lexed  == ShLex(script)
            IN  /\ lexed.ok
                /\ lexed.tokens = IntendedTokens(op, args)
                /\ Len(script) = FixedScriptLen(op, args)
                       + PathOccurrences(op) * (Len(args.path) + 2 + 3 * QuoteCount(args.path))

PathQuotedWitness ==
    /\ pc = "done"
    /\ op = "exists"
    /\ QuoteCount(args.path) = 2
    /\ \E i \in 1..Len(args.path) : args.path[i] = ";"
    /\ ShLex(cmds[1].args[2]).tokens[4] = ShWord(args.path)

(***************************************************************************)
(* SandboxFileInfo                                                         *)
(***************************************************************************)
StatFormat == <<"%", "F", "|", "%", "s", "|", "%", "A", "|", "%", "U", "|", "%", "G", "|", "%", "y", "|", "%", "x", "|", "%", "w">>

FileInfo_parseFileType(typeStr) ==
    LET lower == ToLowerCase(typeStr)
    IN  IF Includes(lower, <<"r", "e", "g", "u", "l", "a", "r">>) THEN "file"
        ELSE IF Includes(lower, <<"d", "i", "r", "e", "c", "t", "o", "r", "y">>) THEN "directory"
        ELSE IF Includes(lower, <<"s", "y", "m", "b", "o", "l", "i", "c", " ", "l", "i", "n", "k">>) THEN "symlink"
        ELSE "other"

\* parseInt(sizeStr, 10): leading whitespace, an optional sign, then the
\* longest run of digits; "NaN" when there is no digit.
JsParseInt(s) ==
    LET t      == TrimStart(s)
        signed == t # <<>> /\ t[1] \in {"+", "-"}
        from   == IF signed THEN 2 ELSE 1
        n      == DigitRun(t, from)
    IN  IF n = 0 THEN "NaN"
        ELSE IF signed /\ t[1] = "-" THEN 0 - ParseInt(SubSeq(t, from, from + n - 1))
        ELSE ParseInt(SubSeq(t, from, from + n - 1))

\* A result whose createdAt is always the eighth field.
FileInfoResult_NoFallback(targetPath, parts) ==
    [kind |-> "fileInfo", path |-> targetPath, name |-> BaseName(targetPath),
     type |-> FileInfo_parseFileType(parts[1]), size |-> JsParseInt(parts[2]),
     permissions |-> parts[3], owner |-> parts[4], group |-> parts[5],
     modifiedAt |-> parts[6], accessedAt |-> parts[7], createdAt |-> parts[8]]

FileInfoResult(targetPath, parts) ==
    [kind |-> "fileInfo", path |-> targetPath, name |-> BaseName(targetPath),
     type |-> FileInfo_parseFileType(parts[1]), size |-> JsParseInt(parts[2]),
     permissions |-> parts[3], owner |-> parts[4], group |-> parts[5],
     modifiedAt |-> parts[6], accessedAt |-> parts[7],
     createdAt |-> IF parts[8] = <<"-">> THEN parts[6] ELSE parts[8]]

\* A check that wants nine fields.
TooFewFields_Nine(parts) == Len(parts) < 9

\* parts.length < 8
TooFewFields(parts) == Len(parts) < 8

FileInfoStart(Paths) ==
    /\ pc = "idle"
    /\ \E path \in Paths :
        /\ pc' = "await"
        /\ op' = "fileInfo"
        /\ args' = [containerId |-> ContainerId, path |-> path]
        /\ cmds' = <<Command("stat", <<<<"-", "c">>, StatFormat, path>>, 10000)>>
        /\ UNCHANGED <<resp, result, error, listing, sandbox, lastWrite>>

FileInfoFinish(R) ==
    /\ pc = "await"
    /\ op = "fileInfo"
    /\ \E r \in R :
        LET output == Trim(r.stdout)
            parts  == Split(output, "|")
        IN  /\ resp' = [exitCode |-> r.exitCode, stdout |-> r.stdout, stderr |-> r.stderr]
            /\ sandbox' = r.sandbox
            /\ IF r.exitCode # 0
               THEN /\ pc' = "failed"
                    /\ error' = <<"Failed to get file info for ">> \o args.path \o <<": ">>
                                \o StderrOrUnknown(r.stderr)
                    /\ UNCHANGED result
               ELSE IF TooFewFields(parts)
               THEN /\ pc' = "failed"
                    /\ error' = <<"Unexpected stat output format: ">> \o output
                    /\ UNCHANGED result
               ELSE /\ pc' = "done"
                    /\ result' = FileInfoResult(args.path, parts)
                    /\ UNCHANGED error
            /\ UNCHANGED <<op, args, cmds, listing, lastWrite>>

(***************************************************************************)
(* The sandbox's side of exists and fileInfo: what stat and echo print.    *)
(* The descriptors are put together from the words of stat's %F texts, in  *)
(* both cases, and from the sentinel.                                      *)
(***************************************************************************)
MaxWords == 2

StatWords ==
    {<<"r", "e", "g", "u", "l", "a", "r">>,
     <<" ", "f", "i", "l", "e">>,
     <<" ", "e", "m", "p", "t", "y", " ", "f", "i", "l", "e">>,
     <<"d", "i", "r", "e", "c", "t", "o", "r", "y">>,
     <<"s", "y", "m", "b", "o", "l", "i", "c", " ", "l", "i", "n", "k">>,
     <<"s", "y", "m", "b", "o", "l", "i", "c">>,
     <<" ", "l", "i", "n", "k">>,
     <<"s", "o", "c", "k", "e", "t">>,
     <<"R", "e", "g", "u", "l", "a", "r">>,
     <<"D", "I", "R", "E", "C", "T", "O", "R", "Y">>,
     <<"S", "y", "m", "b", "o", "l", "i", "c", " ", "L", "i", "n", "k">>,
     NOT_FOUND,
     <<" ">>}

Descriptors == {Flatten(ws) : ws \in SeqsUpTo(StatWords, MaxWords)}

StatPaths == {<<"/", "d", "/", "f">>, <<"f", "'">>}

NoSuchFile == <<"s", "t", "a", "t", ":", " ", "c", "a", "n", "n", "o", "t", " ", "s", "t", "a", "t", ":", " ", "N", "o", " ", "s", "u", "c", "h", " ", "f", "i", "l", "e", " ", "o", "r", " ", "d", "i", "r", "e", "c", "t", "o", "r", "y">>

FailedResponses ==
    {[exitCode |-> e, stdout |-> <<>>, stderr |-> err, sandbox |-> sandbox] :
        e \in {1, 2}, err \in {<<>>, NoSuchFile}}

ExistsResponses ==
    {[exitCode |-> 0, stdout |-> pre \o d \o post, stderr |-> <<>>, sandbox |-> sandbox] :
        d \in Descriptors, pre \in {<<>>, <<"\t">>}, post \in {<<>>, <<"\n">>}}
    \cup FailedResponses

MTime == <<"2", "0", "2", "4", "-", "0", "1", "-", "0", "2", " ", "0", "3", ":", "0", "4", ":", "0", "5", " ", "+", "0", "0", "0", "0">>

ATime == <<"2", "0", "2", "4", "-", "0", "1", "-", "0", "3", " ", "0", "3", ":", "0", "4", ":", "0", "5", " ", "+", "0", "0", "0", "0">>

RECURSIVE JoinBar(_)
JoinBar(fs) ==
    IF fs = <<>> THEN <<>>
    ELSE IF Len(fs) = 1 THEN fs[1]
    ELSE fs[1] \o <<"|">> \o JoinBar(Tail(fs))

\* The first k fields of stat's line for the format, and a further one
\* when k is 9.
StatLine(d, size, ctime, k) ==
    JoinBar(SubSeq(<<d, size, <<"-", "r", "w", "-", "r", "-", "-", "r", "-", "-">>, <<"r", "o", "o", "t">>, <<"r", "o", "o", "t">>,
                     MTime, ATime, ctime, <<"x">>>>, 1, k)) \o <<"\n">>

FileInfoResponses(Descs, Sizes, CTimes, Counts) ==
    {[exitCode |-> 0, stdout |-> StatLine(d, size, ctime, k), stderr |-> <<>>,
      sandbox |-> sandbox] :
        d \in Descs, size \in Sizes, ctime \in CTimes, k \in Counts}
    \cup FailedResponses

NextStat ==
    \/ ExistsStart(StatPaths)
    \/ ExistsFinish(ExistsResponses)
    \/ FileInfoStart(StatPaths)
    \/ FileInfoFinish(FileInfoResponses(Descriptors, {<<"1", "0">>}, {<<"-">>}, {7, 8}))
    \/ Return

SpecStat == Init /\ [][NextStat]_vars

ExistsEnded == op = "exists" /\ pc \in {"done", "failed"}

FileInfoDone == op = "fileInfo" /\ pc = "done"

(***************************************************************************)
(* C5: exists returns {exists: false, type: null} exactly when the command *)
(* exits 0 and its stdout is the sentinel NOT_FOUND between whitespace;    *)
(* for every other stdout with exit code 0 it returns exists: true and the *)
(* class of the trimmed stdout, one of file, directory, symlink, other.    *)
(* So type is null if and only if exists is false.                         *)
(***************************************************************************)
\* s is the sentinel, with nothing but whitespace before and after it.
IsPaddedSentinel(s) ==
    \E i \in 1..Len(s) :
        /\ i + Len(NOT_FOUND) - 1 <= Len(s)
        /\ SubSeq(s, i, i + Len(NOT_FOUND) - 1) = NOT_FOUND
        /\ \A j \in 1..Len(s) : (j < i \/ j >= i + Len(NOT_FOUND)) => IsSpace(s[j])

ExistsSentinelParsing ==
    ExistsEnded =>
        /\ (pc = "done") = (resp.exitCode = 0)
        /\ pc = "done" =>
            /\ result.path = args.path
            /\ (~result.exists) = IsPaddedSentinel(resp.stdout)
            /\ (result.type = "null") = (~result.exists)
            /\ result.exists =>
                /\ result.type \in {"file", "directory", "symlink", "other"}
                /\ result.type = Exists_parseFileType(Trim(resp.stdout))

ExistsSentinelWitness ==
    /\ ExistsEnded
    /\ pc = "done"
    /\ ~result.exists
    /\ result.type = "null"
    /\ resp.stdout = <<"\t">> \o NOT_FOUND \o <<"\n">>

(***************************************************************************)
(* C6 as stated: the classifier of exists and fileInfo maps a descriptor   *)
(* containing "regular file" to file, one containing "directory" to        *)
(* directory, one containing "symbolic link" to symlink, and a descriptor  *)
(* containing none of the three, such as "regular empty file", to other.   *)
(***************************************************************************)
\* The text that is classified, and its class, in a state where exists or
\* fileInfo has returned one.
Classified ==
    IF op = "exists" THEN Trim(resp.stdout) ELSE Split(Trim(resp.stdout), "|")[1]

HasClass ==
    \/ op = "exists" /\ pc = "done" /\ result.exists
    \/ FileInfoDone

HasText(d, text) == Includes(ToLowerCase(d), text)

RegularFileText == <<"r", "e", "g", "u", "l", "a", "r", " ", "f", "i", "l", "e">>

RegularText == <<"r", "e", "g", "u", "l", "a", "r">>

DirectoryText == <<"d", "i", "r", "e", "c", "t", "o", "r", "y">>

SymbolicLinkText == <<"s", "y", "m", "b", "o", "l", "i", "c", " ", "l", "i", "n", "k">>

ClassifierAsStated ==
    HasClass =>
        /\ HasText(Classified, RegularFileText) => result.type = "file"
        /\ HasText(Classified, DirectoryText) => result.type = "directory"
        /\ HasText(Classified, SymbolicLinkText) => result.type = "symlink"
        /\ (~HasText(Classified, RegularFileText) /\ ~HasText(Classified, DirectoryText)
            /\ ~HasText(Classified, SymbolicLinkText)) => result.type = "other"

(***************************************************************************)
(* C6, amended: the classifier looks for "regular", not "regular file",    *)
(* and looks in the order regular, directory, symbolic link.  Without      *)
(* regard to case, a descriptor containing "regular" is a file (so stat's  *)
(* "regular empty file" is a file); otherwise one containing "directory"   *)
(* is a directory; otherwise one containing "symbolic link" is a symlink;  *)
(* every other descriptor, the empty one included, is other.  Every        *)
(* descriptor gets a class: exists with exit code 0 and fileInfo with      *)
(* eight fields or more always return.                                     *)
(***************************************************************************)
ClassOf(d) ==
    CASE HasText(d, RegularText) -> "file"
      [] ~HasText(d, RegularText) /\ HasText(d, DirectoryText) -> "directory"
      [] ~HasText(d, RegularText) /\ ~HasText(d, DirectoryText)
         /\ HasText(d, SymbolicLinkText) -> "symlink"
      [] OTHER -> "other"

ClassifierMatchesRegular ==
    /\ (pc \in {"done", "failed"} /\ op \in {"exists", "fileInfo"} /\ resp.exitCode = 0) =>
           \/ pc = "done"
           \/ op = "fileInfo" /\ Len(Split(Trim(resp.stdout), "|")) < 8
    /\ HasClass => result.type = ClassOf(Classified)

ClassifierWitness ==
    /\ HasClass
    /\ op = "exists"
    /\ Classified = <<"r", "e", "g", "u", "l", "a", "r", " ", "e", "m", "p", "t", "y", " ", "f", "i", "l", "e">>
    /\ result.type = "file"

(***************************************************************************)
(* SandboxCreateDirectory                                                  *)
(***************************************************************************)
FileExistsText == <<"F", "i", "l", "e", " ", "e", "x", "i", "s", "t", "s">>

MkdirArgs(dirPath, recursive) == IF recursive THEN <<<<"-", "p">>, dirPath>> ELSE <<dirPath>>

\* An alreadyExists that takes "file exists" in any case for the message.
AlreadyExists_AnyCase(r) ==
    r.exitCode # 0 /\ Includes(ToLowerCase(r.stderr), ToLowerCase(FileExistsText))

AlreadyExists(r) == r.exitCode # 0 /\ Includes(r.stderr, FileExistsText)

CreateDirectoryStart(Paths) ==
    /\ pc = "idle"
    /\ \E path \in Paths, recursive \in BOOLEAN :
        /\ pc' = "await"
        /\ op' = "createDirectory"
        /\ args' = [containerId |-> ContainerId, path |-> path, recursive |-> recursive]
        /\ cmds' = <<Command("mkdir", MkdirArgs(path, recursive), 10000)>>
        /\ UNCHANGED <<resp, result, error, listing, sandbox, lastWrite>>

CreateDirectoryFinish(R) ==
    /\ pc = "await"
    /\ op = "createDirectory"
    /\ \E r \in R :
        /\ resp' = [exitCode |-> r.exitCode, stdout |-> r.stdout, stderr |-> r.stderr]
        /\ sandbox' = r.sandbox
        /\ IF r.exitCode # 0 /\ ~AlreadyExists(r)
           THEN /\ pc' = "failed"
                /\ error' = <<"Failed to create directory ">> \o args.path \o <<": ">>
                            \o StderrOrUnknown(r.stderr)
                /\ UNCHANGED result
           ELSE /\ pc' = "done"
                /\ result' = [kind |-> "createDirectory", path |-> args.path,
                              created |-> (r.exitCode = 0)]
                /\ UNCHANGED error
        /\ UNCHANGED <<op, args, cmds, listing, lastWrite>>

(***************************************************************************)
(* The sandbox's side of createDirectory: mkdir's exit code and message,   *)
(* the message put together from the pieces of mkdir's diagnostics.        *)
(***************************************************************************)
MaxErrWords == 3

MkdirWords ==
    {<<"F", "i", "l", "e", " ", "e", "x", "i", "s", "t", "s">>,
     <<"f", "i", "l", "e", " ", "e", "x", "i", "s", "t", "s">>,
     <<"F", "i", "l", "e">>,
     <<"e", "x", "i", "s", "t", "s">>,
     <<"m", "k", "d", "i", "r", ":", " ", "c", "a", "n", "n", "o", "t", " ", "c", "r", "e", "a", "t", "e", " ", "d", "i", "r", "e", "c", "t", "o", "r", "y", ":", " ">>,
     <<"P", "e", "r", "m", "i", "s", "s", "i", "o", "n", " ", "d", "e", "n", "i", "e", "d">>,
     <<" ">>}

MkdirMessages == {Flatten(ws) : ws \in SeqsUpTo(MkdirWords, MaxErrWords)}

MkdirPaths == {<<"/", "d">>, <<"d", "/", "e">>}

MkdirResponses ==
    {[exitCode |-> e, stdout |-> <<>>, stderr |-> err, sandbox |-> sandbox] :
        e \in {0, 1, 2}, err \in MkdirMessages}

NextMkdir ==
    \/ CreateDirectoryStart(MkdirPaths)
    \/ CreateDirectoryFinish(MkdirResponses)
    \/ Return

SpecMkdir == Init /\ [][NextMkdir]_vars

(***************************************************************************)
(* C7: createDirectory raises an error if and only if mkdir's exit code is *)
(* not 0 and stderr does not contain "File exists".  With a non-zero exit  *)
(* code and "File exists" in stderr it returns {path, created: false};     *)
(* with exit code 0 it returns {path, created: true}.  In every result     *)
(* created equals (exitCode = 0).                                          *)
(***************************************************************************)
CreateDirectoryEnded == op = "createDirectory" /\ pc \in {"done", "failed"}

\* "File exists", in exactly this case, stands somewhere in s.
SaysFileExists(s) ==
    \E i \in 1..Len(s) :
        /\ i + 10 <= Len(s)
        /\ <<s[i], s[i + 1], s[i + 2], s[i + 3]>> = <<"F", "i", "l", "e">>
        /\ s[i + 4] = " "
        /\ SubSeq(s, i + 5, i + 10) = <<"e", "x", "i", "s", "t", "s">>

CreateDirectoryFileExists ==
    CreateDirectoryEnded =>
        /\ (pc = "failed") = (resp.exitCode # 0 /\ ~SaysFileExists(resp.stderr))
        /\ pc = "done" =>
            /\ result.path = args.path
            /\ result.created = (resp.exitCode = 0)
        /\ (resp.exitCode # 0 /\ SaysFileExists(resp.stderr)) =>
               (pc = "done" /\ ~result.created)
        /\ resp.exitCode = 0 => (pc = "done" /\ result.created)

CreateDirectoryWitness ==
    /\ CreateDirectoryEnded
    /\ pc = "done"
    /\ resp.exitCode = 1
    /\ ~args.recursive
    /\ SaysFileExists(resp.stderr)
    /\ ~result.created

(***************************************************************************)
(* The sandbox's side of write and read: a filesystem of directories and   *)
(* files, and what mkdir, sh (echo, base64 -d, >), cat and base64 do to    *)
(* it.  The commands are those of GNU coreutils and a POSIX shell.         *)
(***************************************************************************)
\* The command the executor is running.
Running == cmds[Len(cmds)]

Response(exitCode, stdout, stderr, sb) ==
    [exitCode |-> exitCode, stdout |-> stdout, stderr |-> stderr, sandbox |-> sb]

IsDir(sb, p) == p \in sb.dirs \/ p \in {<<"/">>, <<".">>}

IsFile(sb, p) == p \in DOMAIN sb.files

PutFile(files, p, bytes) ==
    [q \in (DOMAIN files) \cup {p} |-> IF q = p THEN bytes ELSE files[q]]

\* d and the directories above it.
DirsOf(d) ==
    {SubSeq(d, 1, j) : j \in {i \in 1..Len(d) : d[i] # "/" /\ (i = Len(d) \/ d[i + 1] = "/")}}

\* mkdir -p d, and mkdir d.
ExecMkdir(sb, argv) ==
    IF Len(argv) = 2 /\ argv[1] = <<"-", "p">>
    THEN (IF IsFile(sb, argv[2])
          THEN {Response(1, <<>>, <<"mkdir: cannot create directory: ">> \o FileExistsText,
                         sb)}
          ELSE IF \E a \in DirsOf(argv[2]) : IsFile(sb, a)
          THEN {Response(1, <<>>, <<"mkdir: cannot create directory: Not a directory">>, sb)}
          ELSE {Response(0, <<>>, <<>>, [sb EXCEPT !.dirs = @ \cup DirsOf(argv[2])])})
    ELSE IF IsDir(sb, argv[1]) \/ IsFile(sb, argv[1])
    THEN {Response(1, <<>>, <<"mkdir: cannot create directory: ">> \o FileExistsText, sb)}
    ELSE IF ~IsDir(sb, Dirname(argv[1]))
    THEN {Response(1, <<>>, <<"mkdir: cannot create directory: No such file or directory">>,
                   sb)}
    ELSE {Response(0, <<>>, <<>>, [sb EXCEPT !.dirs = @ \cup {argv[1]}])}

\* base64 -d reads groups of four characters: four digits give three
\* bytes, two digits and == one byte, three digits and = two bytes.  At
\* any other group it stops with what the group's leading digits give
\* and fails.
RECURSIVE GnuBase64Decode(_)
GnuBase64Decode(s) ==
    IF s = <<>> THEN [ok |-> TRUE, bytes |-> <<>>]
    ELSE LET q      == SubSeq(s, 1, IF Len(s) < 4 THEN Len(s) ELSE 4)
             digits == CHOOSE k \in 0..Len(q) :
                           /\ \A i \in 1..k : IsB64Digit(q[i])
                           /\ k < Len(q) => ~IsB64Digit(q[k + 1])
             values == [i \in 1..digits |-> B64Value(q[i])]
             whole  == \/ digits = 4
                       \/ Len(q) = 4 /\ digits = 3 /\ q[4] = "="
                       \/ Len(q) = 4 /\ digits = 2 /\ q[3] = "=" /\ q[4] = "="
         IN  IF whole
             THEN LET rest == GnuBase64Decode(SubSeq(s, 5, Len(s)))
                  IN  [ok |-> rest.ok, bytes |-> BytesOfSextets(values) \o rest.bytes]
             ELSE [ok |-> FALSE, bytes |-> BytesOfSextets(values)]

\* base64 FILE prints lines of 76 digits, each ended by a newline.
RECURSIVE Wrap76(_)
Wrap76(s) ==
    IF s = <<>> THEN <<>>
    ELSE IF Len(s) <= 76 THEN s \o <<"\n">>
    ELSE SubSeq(s, 1, 76) \o <<"\n">> \o Wrap76(SubSeq(s, 77, Len(s)))

\* sh -c script, for the script `echo W | base64 -d > T`: the shell opens
\* T for writing, echo prints W and a newline, which base64 -d skips, and
\* the status is that of base64.
ExecSh(sb, script) ==
    LET lexed   == ShLex(script)
        t       == lexed.tokens
        isWrite == /\ lexed.ok
                   /\ Len(t) = 7
                   /\ t[1] = ShWord(<<"e", "c", "h", "o">>)
                   /\ ~t[2].op
                   /\ t[3] = ShOperator("|")
                   /\ t[4] = ShWord(<<"b", "a", "s", "e", "6", "4">>)
                   /\ t[5] = ShWord(<<"-", "d">>)
                   /\ t[6] = ShOperator(">")
                   /\ ~t[7].op
    IN  IF ~isWrite THEN {Response(2, <<>>, <<"sh: syntax error">>, sb)}
        ELSE LET target  == t[7].text
                 decoded == GnuBase64Decode(t[2].text)
             IN  IF \/ target = <<>>
                    \/ target[Len(target)] = "/"
                    \/ IsDir(sb, target)
                    \/ ~IsDir(sb, Dirname(target))
                 THEN {Response(2, <<>>, <<"sh: cannot create">>, sb)}
                 ELSE {Response(IF decoded.ok THEN 0 ELSE 1, <<>>,
                                IF decoded.ok THEN <<>> ELSE <<"base64: invalid input">>,
                                [sb EXCEPT !.files = PutFile(@, target, decoded.bytes)])}

\* An argument that the command takes for standard input: -, or options
\* only (-- or letters from the command's options) and so no file.
ReadsStdin(arg, letters) ==
    \/ arg = <<"-">>
    \/ arg = <<"-", "-">>
    \/ Len(arg) >= 2 /\ arg[1] = "-" /\ \A i \in 2..Len(arg) : arg[i] \in letters

\* The executor's standard input is empty, or closed.
StdinResponses(sb) ==
    {Response(0, <<>>, <<>>, sb), Response(1, <<>>, <<"Bad file descriptor">>, sb)}

ExecCat(sb, arg) ==
    IF ReadsStdin(arg, {"A", "b", "e", "E", "n", "s", "t", "T", "u", "v"})
    THEN StdinResponses(sb)
    ELSE IF arg = <<"-", "-", "h", "e", "l", "p">>
    THEN {Response(0, <<"Usage: cat [OPTION]... [FILE]...">>, <<>>, sb)}
    ELSE IF arg # <<>> /\ arg[1] = "-"
    THEN {Response(1, <<>>, <<"cat: invalid option">>, sb)}
    ELSE IF IsFile(sb, arg)
    THEN {Response(0, Utf8Decode(sb.files[arg]), <<>>, sb)}
    ELSE {Response(1, <<>>, <<"cat: No such file or directory">>, sb)}

ExecBase64(sb, arg) ==
    IF ReadsStdin(arg, {"d", "i"})
    THEN StdinResponses(sb)
    ELSE IF arg = <<"-", "-", "h", "e", "l", "p">>
    THEN {Response(0, <<"Usage: base64 [OPTION]... [FILE]">>, <<>>, sb)}
    ELSE IF arg # <<>> /\ arg[1] = "-"
    THEN {Response(1, <<>>, <<"base64: invalid option">>, sb)}
    ELSE IF IsFile(sb, arg)
    THEN {Response(0, Wrap76(B64Encode(sb.files[arg])), <<>>, sb)}
    ELSE {Response(1, <<>>, <<"base64: No such file or directory">>, sb)}

\* p is d or lies under d.
Under(d, p) ==
    \/ p = d
    \/ Len(p) > Len(d) + 1 /\ SubSeq(p, 1, Len(d)) = d /\ p[Len(d) + 1] = "/"

WithoutTree(sb, d) ==
    [dirs  |-> {q \in sb.dirs : ~Under(d, q)},
     files |-> [q \in {f \in DOMAIN sb.files : ~Under(d, f)} |-> sb.files[q]]]

\* rm [-r] [-f] target
ExecRm(sb, argv) ==
    LET target    == argv[Len(argv)]
        recursive == \E i \in 1..(Len(argv) - 1) : argv[i] = <<"-", "r">>
        force     == \E i \in 1..(Len(argv) - 1) : argv[i] = <<"-", "f">>
    IN  IF target = <<>>
        THEN {Response(IF force THEN 0 ELSE 1, <<>>,
                       IF force THEN <<>>
                       ELSE <<"rm: cannot remove '': No such file or directory">>, sb)}
        ELSE IF Len(target) > 1 /\ target[1] = "-"
        THEN {Response(1, <<>>, <<"rm: invalid option">>, sb)}
        ELSE IF target \in {<<"/">>, <<".">>}
        THEN {Response(1, <<>>, <<"rm: refusing to remove">>, sb)}
        ELSE IF IsFile(sb, target)
        THEN {Response(0, <<>>, <<>>, WithoutTree(sb, target))}
        ELSE IF IsDir(sb, target)
        THEN (IF recursive
              THEN {Response(0, <<>>, <<>>, WithoutTree(sb, target))}
              ELSE {Response(1, <<>>, <<"rm: cannot remove: Is a directory">>, sb)})
        ELSE IF force
        THEN {Response(0, <<>>, <<>>, sb)}
        ELSE {Response(1, <<>>, <<"rm: cannot remove: No such file or directory">>, sb)}

Exec(sb, cmd) ==
    CASE cmd.executable = "mkdir" -> ExecMkdir(sb, cmd.args)
      [] cmd.executable = "rm" -> ExecRm(sb, cmd.args)
      [] cmd.executable = "sh" -> ExecSh(sb, cmd.args[2])
      [] cmd.executable = "cat" -> ExecCat(sb, cmd.args[1])
      [] cmd.executable = "base64" -> ExecBase64(sb, cmd.args[1])
      [] OTHER -> {Response(127, <<>>, <<"not found">>, sb)}

(***************************************************************************)
(* Writes and reads against that sandbox.                                  *)
(***************************************************************************)
RtPaths == {<<"-">>, <<"/", "d", "/", "f">>}

B64Hello == <<"a", "G", "V", "s", "b", "G", "8", "=">>

Utf8Contents == {Hello, <<>>, <<"U+00E9", "U+20AC", "U+1F600", "\n", " ">>, <<"U+D800">>}

Base64Contents ==
    {B64Hello, <<"-", "_">>, <<"A", "A", "=", "=", "A", "A", "A", "A">>, <<"A", "A", "A">>,
     <<"a", "G", " ", "V", "s", "\n", "b", "G", "8", "=">>}

\* History: the write that has just returned succeeds the last one; a write
\* that has failed leaves none.
RecordWrite ==
    lastWrite' = IF pc' = "done"
                 THEN [path |-> args.path, content |-> args.content,
                       encoding |-> args.encoding]
                 ELSE NoWrite

NextRoundTrip ==
    \/ WriteStart(RtPaths, Utf8Contents \cup Base64Contents, {"utf8", "base64"})
    \/ WriteMkdirFinish(Exec(sandbox, Running))
    \/ WriteFinish(Exec(sandbox, Running)) /\ RecordWrite
    \/ ReadStart(RtPaths, {"utf8", "base64"})
    \/ ReadFinish(Exec(sandbox, Running))
    \/ Return

SpecRoundTrip == Init /\ [][NextRoundTrip]_vars

\* A read has returned the file that the last write wrote, in the encoding e.
ReadBack(e) ==
    /\ op = "read"
    /\ pc = "done"
    /\ args.encoding = e
    /\ lastWrite.encoding = e
    /\ lastWrite.path = args.path

(***************************************************************************)
(* C2: a successful write(p, C, utf8) followed by a successful             *)
(* read(p, utf8), with no write in between, returns content equal to C.    *)
(***************************************************************************)
RoundTripUtf8 == ReadBack("utf8") => result.content = lastWrite.content

(***************************************************************************)
(* C3: a successful write(p, B, base64) followed by a successful           *)
(* read(p, base64), with no write in between, returns B without the        *)
(* characters outside [A-Za-z0-9+/=], nothing added and nothing removed.   *)
(***************************************************************************)
RoundTripBase64 == ReadBack("base64") => result.content = StripNonBase64(lastWrite.content)

(***************************************************************************)
(* C4: after a successful write bytesWritten is the UTF-8 byte length of   *)
(* the content for utf8 (5 for "hello"), and for base64 the number of      *)
(* bytes that the payload dispatched in the script decodes to.             *)
(***************************************************************************)
DispatchedPayload == ShLex(Running.args[2]).tokens[2].text

BytesWrittenIsDecodedLength ==
    (op = "write" /\ pc = "done") =>
        /\ result.bytesWritten = Len(GnuBase64Decode(DispatchedPayload).bytes)
        /\ result.bytesWritten = Len(sandbox.files[args.path])
        /\ args.encoding = "utf8" => result.bytesWritten = Len(Utf8Encode(args.content))
        /\ (args.encoding = "utf8" /\ args.content = Hello) => result.bytesWritten = 5

(***************************************************************************)
(* fileInfo and list over paths of every shape, and stat lines of every    *)
(* number of fields.                                                       *)
(***************************************************************************)
InfoPaths == SeqsUpTo({"/", "a", "."}, MaxPathLen)

BTime == <<"2", "0", "2", "4", "-", "0", "1", "-", "0", "1", " ", "0", "3", ":", "0", "4", ":", "0", "5", " ", "+", "0", "0", "0", "0">>

InfoResponses ==
    FileInfoResponses({<<"r", "e", "g", "u", "l", "a", "r", " ", "f", "i", "l", "e">>, <<"d", "i", "r", "e", "c", "t", "o", "r", "y">>},
                      {<<"1", "0">>, <<"0">>, <<"x">>},
                      {<<"-">>, BTime, <<"-", "-">>, <<>>},
                      0..9)

NextInfo ==
    \/ FileInfoStart(InfoPaths)
    \/ FileInfoFinish(InfoResponses)
    \/ ListStart(ListPaths)
    \/ ListFinish(ListResponses(args.path))
    \/ Return

SpecInfo == Init /\ [][NextInfo]_vars

(***************************************************************************)
(* C11: the name of a list entry, taken from the entry's path, and the     *)
(* name fileInfo reports, taken from the request path, is what follows the *)
(* last / of that path; it is the whole path only when the path has no /.  *)
(***************************************************************************)
HasSlash(p) == \E i \in 1..Len(p) : p[i] = "/"

AfterLastSlash(p) ==
    LET last == IF HasSlash(p)
                THEN CHOOSE i \in 1..Len(p) :
                         p[i] = "/" /\ \A j \in (i + 1)..Len(p) : p[j] # "/"
                ELSE 0
    IN  SubSeq(p, last + 1, Len(p))

NameIsLastSegment ==
    /\ FileInfoDone =>
           /\ result.name = AfterLastSlash(args.path)
           /\ result.name = args.path => ~HasSlash(args.path)
    /\ ListDone =>
           \A i \in 1..Len(result.entries) :
               /\ result.entries[i].name = AfterLastSlash(result.entries[i].path)
               /\ result.entries[i].name = result.entries[i].path
                      => ~HasSlash(result.entries[i].path)

(***************************************************************************)
(* The fields of a stat line, read off the positions of its bars.          *)
(***************************************************************************)
Bars(s) == {i \in 1..Len(s) : s[i] = "|"}

FieldCount(s) == Cardinality(Bars(s)) + 1

\* The position of the n-th bar of s; 0 for n = 0, Len(s) + 1 past the last.
BarAt(s, n) ==
    IF n = 0 THEN 0
    ELSE IF n > Cardinality(Bars(s)) THEN Len(s) + 1
    ELSE CHOOSE i \in Bars(s) : Cardinality({j \in Bars(s) : j < i}) = n - 1

FieldOf(s, n) == SubSeq(s, BarAt(s, n - 1) + 1, BarAt(s, n) - 1)

\* The stat line of a fileInfo whose command has exited with 0.
StatOutput == Trim(resp.stdout)

FileInfoEndedOk == op = "fileInfo" /\ pc \in {"done", "failed"} /\ resp.exitCode = 0

(***************************************************************************)
(* C12: for every stat line of exit code 0 with at least 8 fields,         *)
(* fileInfo returns modifiedAt = field 6 and accessedAt = field 7          *)
(* unchanged, and createdAt = modifiedAt when field 8 is exactly "-",      *)
(* field 8 otherwise.                                                      *)
(***************************************************************************)
FileInfoTimestamps ==
    (FileInfoEndedOk /\ FieldCount(StatOutput) >= 8) =>
        /\ pc = "done"
        /\ result.modifiedAt = FieldOf(StatOutput, 6)
        /\ result.accessedAt = FieldOf(StatOutput, 7)
        /\ FieldOf(StatOutput, 8) = <<"-">> => result.createdAt = result.modifiedAt
        /\ FieldOf(StatOutput, 8) # <<"-">> => result.createdAt = FieldOf(StatOutput, 8)

FileInfoTimestampsWitness ==
    /\ FileInfoDone
    /\ FieldOf(StatOutput, 8) = <<"-">>
    /\ result.createdAt = MTime
    /\ result.modifiedAt = MTime
    /\ result.accessedAt = ATime

(***************************************************************************)
(* C13: when stat exits with 0 and its trimmed stdout has fewer than 8     *)
(* fields between bars, fileInfo raises a format error and returns no      *)
(* result; with 8 fields or more it returns a result made of the first 8   *)
(* fields, whatever follows them.                                          *)
(***************************************************************************)
FileInfoFieldCount ==
    FileInfoEndedOk =>
        /\ FieldCount(StatOutput) < 8 =>
               /\ pc = "failed"
               /\ result = NoResult
               /\ error = <<"Unexpected stat output format: ">> \o StatOutput
        /\ FieldCount(StatOutput) >= 8 =>
               /\ pc = "done"
               /\ error = <<>>
               /\ result =
                      [kind |-> "fileInfo", path |-> args.path, name |-> BaseName(args.path),
                       type |-> ClassOf(FieldOf(StatOutput, 1)),
                       size |-> JsParseInt(FieldOf(StatOutput, 2)),
                       permissions |-> FieldOf(StatOutput, 3),
                       owner |-> FieldOf(StatOutput, 4),
                       group |-> FieldOf(StatOutput, 5),
                       modifiedAt |-> FieldOf(StatOutput, 6),
                       accessedAt |-> FieldOf(StatOutput, 7),
                       createdAt |-> IF FieldOf(StatOutput, 8) = <<"-">>
                                     THEN FieldOf(StatOutput, 6)
                                     ELSE FieldOf(StatOutput, 8)]

FileInfoFieldCountWitness ==
    /\ FileInfoEndedOk
    /\ pc = "done"
    /\ FieldCount(StatOutput) = 9
    /\ result.createdAt = BTime

(***************************************************************************)
(* SandboxDelete                                                           *)
(***************************************************************************)
\* A vector with -f before -r.
RmArgs_ForceFirst(targetPath, recursive, force) ==
    (IF force THEN <<<<"-", "f">>>> ELSE <<>>)
    \o (IF recursive THEN <<<<"-", "r">>>> ELSE <<>>)
    \o <<targetPath>>

RmArgs(targetPath, recursive, force) ==
    (IF recursive THEN <<<<"-", "r">>>> ELSE <<>>)
    \o (IF force THEN <<<<"-", "f">>>> ELSE <<>>)
    \o <<targetPath>>

DeleteStart(Paths) ==
    /\ pc = "idle"
    /\ \E path \in Paths, recursive \in BOOLEAN, force \in BOOLEAN :
        /\ pc' = "await"
        /\ op' = "delete"
        /\ args' = [containerId |-> ContainerId, path |-> path, recursive |-> recursive,
                    force |-> force]
        /\ cmds' = <<Command("rm", RmArgs(path, recursive, force), 30000)>>
        /\ UNCHANGED <<resp, result, error, listing, sandbox, lastWrite>>

DeleteFinish(R) ==
    /\ pc = "await"
    /\ op = "delete"
    /\ \E r \in R :
        /\ resp' = [exitCode |-> r.exitCode, stdout |-> r.stdout, stderr |-> r.stderr]
        /\ sandbox' = r.sandbox
        /\ IF r.exitCode # 0
           THEN /\ pc' = "failed"
                /\ error' = <<"Failed to delete ">> \o args.path \o <<": ">>
                            \o StderrOrUnknown(r.stderr)
                /\ UNCHANGED result
           ELSE /\ pc' = "done"
                /\ result' = [kind |-> "delete", path |-> args.path, deleted |-> TRUE]
                /\ UNCHANGED error
        /\ UNCHANGED <<op, args, cmds, listing, lastWrite>>

(***************************************************************************)
(* The seven tools against an executor that answers anything: every exit   *)
(* code, with and without text on stdout and stderr.                       *)
(***************************************************************************)
AllPaths ==
    {<<"/", "d", "/", "f">>, <<"f">>, <<"a", " ", "'", ";">>, <<>>}

PermissionDenied == <<"P", "e", "r", "m", "i", "s", "s", "i", "o", "n", " ", "d", "e", "n", "i", "e", "d">>

AnyStdouts ==
    {<<>>, NOT_FOUND \o <<"\n">>, StatLine(<<"r", "e", "g", "u", "l", "a", "r", " ", "f", "i", "l", "e">>, <<"1", "0">>, <<"-">>, 8)}

AnyStderrs ==
    {<<>>, PermissionDenied, <<"m", "k", "d", "i", "r", ":", " ", "c", "a", "n", "n", "o", "t", " ", "c", "r", "e", "a", "t", "e", " ", "d", "i", "r", "e", "c", "t", "o", "r", "y", ":", " ", "F", "i", "l", "e", " ", "e", "x", "i", "s", "t", "s">>}

AnyResponses ==
    {[exitCode |-> e, stdout |-> out, stderr |-> err, sandbox |-> sandbox] :
        e \in {0, 1, 2}, out \in AnyStdouts, err \in AnyStderrs}

NextAll ==
    \/ WriteStart(AllPaths, {Hello, B64Hello}, {"utf8", "base64"})
    \/ WriteMkdirFinish(AnyResponses)
    \/ WriteFinish(AnyResponses) /\ UNCHANGED lastWrite
    \/ ReadStart(AllPaths, {"utf8", "base64"})
    \/ ReadFinish(AnyResponses)
    \/ ListStart(AllPaths)
    \/ ListFinish(ListResponses(args.path))
    \/ ExistsStart(AllPaths)
    \/ ExistsFinish(AnyResponses)
    \/ FileInfoStart(AllPaths)
    \/ FileInfoFinish(AnyResponses)
    \/ CreateDirectoryStart(AllPaths)
    \/ CreateDirectoryFinish(AnyResponses)
    \/ DeleteStart(AllPaths)
    \/ DeleteFinish(AnyResponses)
    \/ Return

SpecAll == Init /\ [][NextAll]_vars

Ended == op # "none" /\ pc \in {"done", "failed"}

(***************************************************************************)
(* C14: in all seven operations and for every command they dispatch, the   *)
(* parent-directory step of write included, a non-zero exit code makes the *)
(* operation raise and return no result, but for createDirectory with      *)
(* "File exists" in stderr; the message of the error holds the path of the *)
(* request and the stderr text, or "Unknown error" when stderr is empty.   *)
(***************************************************************************)
FileExistsException == op = "createDirectory" /\ SaysFileExists(resp.stderr)

\* t stands in s, element for element.
Holds(s, t) ==
    \E i \in 0..(Len(s) - Len(t)) : \A j \in 1..Len(t) : s[i + j] = t[j]

FailureCarriesPathAndStderr ==
    (Ended /\ resp.exitCode # 0 /\ ~FileExistsException) =>
        /\ pc = "failed"
        /\ result = NoResult
        /\ Holds(error, args.path)
        /\ Holds(error, IF resp.stderr = <<>> THEN <<"Unknown error">> ELSE resp.stderr)

(***************************************************************************)
(* The argument schemas, z.object({...}).strict(), which the framework     *)
(* applies to a request before execute is called.  A request gives each    *)
(* field a typed value, or none.                                           *)
(***************************************************************************)
Ops == {"write", "read", "list", "exists", "fileInfo", "createDirectory", "delete"}

Undefined == [t |-> "undefined", v |-> <<>>]

Str(v) == [t |-> "string", v |-> v]

Bool(b) == [t |-> "boolean", v |-> b]

\* z.string()
ZString == [type |-> "string", hasDefault |-> FALSE, default |-> FALSE]

\* z.boolean().default(b)
ZBoolean(b) == [type |-> "boolean", hasDefault |-> TRUE, default |-> b]

\* z.enum(["utf8", "base64"]).default("utf8")
ZEncoding == [type |-> "enum", hasDefault |-> TRUE, default |-> "utf8"]

Utf8Name == <<"u", "t", "f", "8">>

Base64Name == <<"b", "a", "s", "e", "6", "4">>

HexName == <<"h", "e", "x">>

EncodingOf(v) == IF v = Utf8Name THEN "utf8" ELSE "base64"

Schema(o) ==
    CASE o = "write" ->
            [containerId |-> ZString, path |-> ZString, content |-> ZString,
             encoding |-> ZEncoding, createParentDirs |-> ZBoolean(TRUE)]
      [] o = "read" ->
            [containerId |-> ZString, path |-> ZString, encoding |-> ZEncoding]
      [] o = "list" ->
            [containerId |-> ZString, path |-> ZString, recursive |-> ZBoolean(FALSE)]
      [] o = "createDirectory" ->
            [containerId |-> ZString, path |-> ZString, recursive |-> ZBoolean(TRUE)]
      [] o = "delete" ->
            [containerId |-> ZString, path |-> ZString, recursive |-> ZBoolean(FALSE),
             force |-> ZBoolean(FALSE)]
      [] OTHER ->
            [containerId |-> ZString, path |-> ZString]

FieldNames ==
    {"containerId", "path", "content", "encoding", "createParentDirs", "recursive",
     "force"}

\* The value fits the type of the field.
Fits(z, val) ==
    CASE z.type = "string" -> val.t = "string"
      [] z.type = "boolean" -> val.t = "boolean"
      [] OTHER -> val.t = "string" /\ val.v \in {Utf8Name, Base64Name}

\* safeParse(req).success: no field outside the shape (strict), every field
\* of the shape given with a fitting value or covered by its default.
Accepts(o, req) ==
    /\ \A f \in FieldNames : req[f].t # "undefined" => f \in DOMAIN Schema(o)
    /\ \A f \in DOMAIN Schema(o) :
        IF req[f].t = "undefined" THEN Schema(o)[f].hasDefault
        ELSE Fits(Schema(o)[f], req[f])

\* The parsed arguments: defaults filled in.
Parsed(o, req) ==
    [f \in DOMAIN Schema(o) |->
        IF req[f].t = "undefined" THEN Schema(o)[f].default
        ELSE IF Schema(o)[f].type = "enum" THEN EncodingOf(req[f].v)
        ELSE req[f].v]

Requests ==
    {[containerId |-> c, path |-> p, content |-> t, encoding |-> e,
      createParentDirs |-> cpd, recursive |-> r, force |-> f] :
        c \in {Undefined, Str(ContainerId)},
        p \in {Undefined, Str(<<>>), Str(<<"/", "d", "/", "f">>), Bool(TRUE)},
        t \in {Undefined, Str(Hello)},
        e \in {Undefined, Str(Base64Name), Str(HexName)},
        cpd \in {Undefined, Bool(FALSE)},
        r \in {Undefined, Bool(TRUE), Str(<<"y">>)},
        f \in {Undefined, Bool(TRUE)}}

\* execute(args) of the tool of operation o.
Execute(o, a) ==
    CASE o = "write" -> WriteStart({a.path}, {a.content}, {a.encoding}) /\ args' = a
      [] o = "read" -> ReadStart({a.path}, {a.encoding}) /\ args' = a
      [] o = "list" -> ListStart({a.path}) /\ args' = a
      [] o = "exists" -> ExistsStart({a.path}) /\ args' = a
      [] o = "fileInfo" -> FileInfoStart({a.path}) /\ args' = a
      [] o = "createDirectory" -> CreateDirectoryStart({a.path}) /\ args' = a
      [] OTHER -> DeleteStart({a.path}) /\ args' = a

\* The request fails the schema: execute is not called.
Reject(o) ==
    /\ pc = "idle"
    /\ pc' = "failed"
    /\ op' = o
    /\ error' = <<"Invalid arguments">>
    /\ UNCHANGED <<args, cmds, resp, result, listing, sandbox, lastWrite>>

Invoke(o) ==
    /\ pc = "idle"
    /\ \E req \in Requests :
        IF Accepts(o, req) THEN Execute(o, Parsed(o, req)) ELSE Reject(o)

NextValidate ==
    \/ \E o \in Ops : Invoke(o)
    \/ WriteMkdirFinish(AnyResponses)
    \/ WriteFinish(AnyResponses) /\ UNCHANGED lastWrite
    \/ ReadFinish(AnyResponses)
    \/ ListFinish(ListResponses(args.path))
    \/ ExistsFinish(AnyResponses)
    \/ FileInfoFinish(AnyResponses)
    \/ CreateDirectoryFinish(AnyResponses)
    \/ DeleteFinish(AnyResponses)
    \/ Return

SpecValidate == Init /\ [][NextValidate]_vars

(***************************************************************************)
(* C15: in all seven operations a request whose path or containerId is the *)
(* empty string, or that carries an undeclared field, is rejected by       *)
(* validation, so that no command is dispatched with an empty path or an   *)
(* empty containerId.                                                      *)
(***************************************************************************)
NoEmptyDispatch ==
    \A i \in 1..Len(cmds) :
        /\ args.path # <<>>
        /\ args.containerId # <<>>
        /\ cmds[i].containerId # <<>>

(***************************************************************************)
(* C16: for read, createDirectory, delete and fileInfo the executable is   *)
(* never a shell and the request path is, unmodified, the last element of  *)
(* the argument vector; the vector of delete is "-r" if recursive, then    *)
(* "-f" if force, then the path; that of createDirectory is "-p" and the   *)
(* path when recursive, and the path alone otherwise.                      *)
(***************************************************************************)
Shells == {"sh", "bash", "dash", "zsh", "ash", "ksh"}

Flag(set, letter) == IF set THEN <<<<"-", letter>>>> ELSE <<>>

ArgvCarriesPath ==
    op \in {"read", "createDirectory", "delete", "fileInfo"} =>
        \A i \in 1..Len(cmds) :
            LET c == cmds[i]
            IN  /\ c.executable \notin Shells
                /\ c.args # <<>>
                /\ c.args[Len(c.args)] = args.path
                /\ op = "delete" =>
                     /\ c.executable = "rm"
                     /\ c.args = Flag(args.recursive, "r") \o Flag(args.force, "f")
                                 \o <<args.path>>
                /\ op = "createDirectory" =>
                     /\ c.executable = "mkdir"
                     /\ c.args = Flag(args.recursive, "p") \o <<args.path>>

ArgvCarriesPathWitness ==
    /\ op = "delete"
    /\ pc = "done"
    /\ args.path = <<"a", " ", "'", ";">>
    /\ cmds = <<Command("rm", <<<<"-", "r">>, <<"-", "f">>, <<"a", " ", "'", ";">>>>, 30000)>>

(***************************************************************************)
(* C17: every dispatched command carries the timeout fixed for its         *)
(* operation, whatever the arguments of the request: 5000 ms for the       *)
(* parent-directory step of write, 10000 ms for exists, createDirectory    *)
(* and fileInfo, 30000 ms for read, the file step of write, delete and     *)
(* list.                                                                   *)
(***************************************************************************)
StatedTimeout(o, c) ==
    CASE o = "write" -> IF c.executable = "mkdir" THEN 5000 ELSE 30000
      [] o \in {"exists", "createDirectory", "fileInfo"} -> 10000
      [] OTHER -> 30000

FixedTimeouts ==
    \A i \in 1..Len(cmds) : cmds[i].timeout = StatedTimeout(op, cmds[i])

FixedTimeoutsWitness ==
    /\ op = "write"
    /\ pc = "done"
    /\ Len(cmds) = 2
    /\ cmds[1].executable = "mkdir" /\ cmds[1].timeout = 5000
    /\ cmds[2].executable = "sh" /\ cmds[2].timeout = 30000

(***************************************************************************)
(* C18, as stated: every invocation of each of the seven operations makes  *)
(* exactly one call to the executor, and nothing is parsed and no result   *)
(* is built before that call has completed.                                *)
(***************************************************************************)
Pending == pc \in {"await", "mkdir"}

NothingBuilt == result = NoResult /\ error = <<>>

ExactlyOneCall ==
    /\ Pending => NothingBuilt
    /\ (Pending \/ Ended) => Len(cmds) = 1

(***************************************************************************)
(* C18, corrected: read, list, exists, fileInfo, createDirectory and       *)
(* delete make exactly one call; write makes the file-step call alone      *)
(* when createParentDirs is false or the dirname of the path is "/" or     *)
(* ".", and otherwise the parent-directory call first and the file-step    *)
(* call only after that one has returned exit code 0; no result and no     *)
(* error is built while a call is outstanding.                             *)
(***************************************************************************)
ParentStepDue ==
    /\ args.createParentDirs
    /\ Dirname(args.path) # <<"/">>
    /\ Dirname(args.path) # <<".">>

CallsPerInvocation ==
    /\ Pending => NothingBuilt
    /\ (Pending \/ Ended) =>
        IF op # "write" THEN Len(cmds) = 1
        ELSE IF ~ParentStepDue THEN Len(cmds) = 1 /\ cmds[1].executable = "sh"
        ELSE /\ cmds[1].executable = "mkdir"
             /\ \/ Len(cmds) = 1 /\ pc = "mkdir"
                \/ Len(cmds) = 1 /\ pc = "failed" /\ resp.exitCode # 0
                \/ Len(cmds) = 2 /\ cmds[2].executable = "sh" /\ pc # "mkdir"

CallsPerInvocationWitness ==
    /\ op = "write"
    /\ pc = "done"
    /\ ParentStepDue
    /\ Len(cmds) = 2
    /\ result # NoResult

(***************************************************************************)
(* C19: whatever the executor answers, no command is dispatched more than  *)
(* once within one invocation; once a dispatched command returns a failing *)
(* result (a non-zero exit code outside the "File exists" case of          *)
(* createDirectory) the invocation dispatches no further command and ends  *)
(* with exactly one error.                                                 *)
(***************************************************************************)
\* A call to the executor returns in this step.
Returns == Pending /\ pc' # pc

FailingResult ==
    /\ resp'.exitCode # 0
    /\ ~(op = "createDirectory" /\ SaysFileExists(resp'.stderr))

FailFastStep ==
    /\ (pc' # "idle" /\ cmds' # cmds) =>
          /\ Len(cmds') = Len(cmds) + 1
          /\ SubSeq(cmds', 1, Len(cmds)) = cmds
          /\ \A i \in 1..Len(cmds) : cmds[i] # cmds'[Len(cmds')]
    /\ (Returns /\ FailingResult) =>
          /\ pc' = "failed"
          /\ cmds' = cmds
          /\ error' # <<>>
          /\ result' = NoResult
    /\ pc = "failed" =>
          /\ pc' = "idle"
          /\ cmds' = <<>>
          /\ error # <<>>

FailFast == [][FailFastStep]_vars

FailFastWitness ==
    /\ op = "write"
    /\ pc = "failed"
    /\ ParentStepDue
    /\ resp.exitCode # 0
    /\ Len(cmds) = 1
    /\ cmds[1].executable = "mkdir"
    /\ error # <<>>

(***************************************************************************)
(* Invocations running concurrently on one container.  The tools share no  *)
(* state but the container, and take no lock: between two steps of the     *)
(* invocation followed here, the rm of a delete invoked by another caller  *)
(* takes effect.  What that delete returns goes to its own caller.         *)
(***************************************************************************)
ConcWritePaths == {<<"/", "d", "/", "f">>, <<"/", "d", "/", "e", "/", "f">>, <<"f">>}

ConcDeletePaths == {<<"/", "d">>, <<"/", "d", "/", "e">>, <<"/", "d", "/", "f">>, <<"f">>}

ConcurrentDelete(Paths) ==
    /\ \E path \in Paths, recursive \in BOOLEAN, force \in BOOLEAN :
          \E r \in Exec(sandbox, Command("rm", RmArgs(path, recursive, force), 30000)) :
              sandbox' = r.sandbox
    /\ UNCHANGED <<pc, op, args, cmds, resp, result, error, listing, lastWrite>>

NextConcurrent ==
    \/ WriteStart(ConcWritePaths, {Hello, <<>>}, {"utf8"})
    \/ WriteMkdirFinish(Exec(sandbox, Running))
    \/ WriteFinish(Exec(sandbox, Running)) /\ RecordWrite
    \/ ReadStart(ConcWritePaths, {"utf8"})
    \/ ReadFinish(Exec(sandbox, Running))
    \/ DeleteStart(ConcDeletePaths)
    \/ DeleteFinish(Exec(sandbox, Running))
    \/ ConcurrentDelete(ConcDeletePaths)
    \/ Return

SpecConcurrent == Init /\ [][NextConcurrent]_vars

(***************************************************************************)
(* C20: an invocation is atomic with respect to the invocations running    *)
(* concurrently on the same sandbox: no command of another invocation      *)
(* takes effect between the commands of one invocation, so that a write    *)
(* whose parent-directory step has succeeded does not fail in its file     *)
(* step for want of the parent directory, removed by a concurrent delete.  *)
(***************************************************************************)
\* The parent-directory step of a write has succeeded and its file step has
\* not yet run.
BetweenCommands == op = "write" /\ pc = "await" /\ Len(cmds) = 2

\* The container changes and the invocation followed here makes no step.
OtherTakesEffect == sandbox' # sandbox /\ pc' = pc /\ cmds' = cmds

InvocationAtomicStep ==
    /\ BetweenCommands => ~OtherTakesEffect
    /\ (BetweenCommands /\ pc' = "failed") => IsDir(sandbox, Dirname(args.path))

InvocationAtomic == [][InvocationAtomicStep]_vars

(***************************************************************************)
(* Writes over every short path made of slashes, dots and a letter, the    *)
(* executor answering anything.                                            *)
(***************************************************************************)
ParentPaths == SeqsUpTo({"/", "d", "."}, MaxPathLen)

NextParent ==
    \/ WriteStart(ParentPaths, {Hello}, {"utf8"})
    \/ WriteMkdirFinish(AnyResponses)
    \/ WriteFinish(AnyResponses) /\ UNCHANGED lastWrite
    \/ Return

SpecParent == Init /\ [][NextParent]_vars

(***************************************************************************)
(* C21: write dispatches the parent-directory command, mkdir -p on the     *)
(* posix dirname of the path, if and only if createParentDirs is true and  *)
(* the dirname is neither "/" nor "."; that command has completed before   *)
(* the file-writing command is dispatched, and when it exits non-zero the  *)
(* file-writing command is never dispatched and the operation raises.      *)
(***************************************************************************)
MkdirParent == Command("mkdir", <<<<"-", "p">>, Dirname(args.path)>>, 5000)

IsFileStep(c) == c.executable = "sh"

\* What has been dispatched so far in a write.
ParentStepShape ==
    op = "write" =>
        /\ (\E i \in 1..Len(cmds) : cmds[i].executable = "mkdir") <=>
              (args.createParentDirs /\ Dirname(args.path) \notin {<<"/">>, <<".">>})
        /\ \A i \in 1..Len(cmds) :
              cmds[i].executable = "mkdir" => i = 1 /\ cmds[i] = MkdirParent
        /\ pc = "mkdir" => cmds = <<MkdirParent>>

ParentStepOrder ==
    (op = "write" /\ pc = "mkdir" /\ pc' # "mkdir") =>
        IF resp'.exitCode # 0
        THEN /\ pc' = "failed"
             /\ cmds' = cmds
             /\ error' # <<>>
             /\ result' = NoResult
        ELSE /\ pc' = "await"
             /\ Len(cmds') = 2
             /\ cmds'[1] = MkdirParent
             /\ IsFileStep(cmds'[2])

ParentStepFirst ==
    [][/\ ParentStepShape'
       /\ ParentStepOrder
       /\ (op = "write" /\ pc = "failed" /\ Len(cmds) = 1 /\ ~IsFileStep(cmds[1])) =>
              pc' = "idle"]_vars

ParentStepFirstWitness ==
    /\ op = "write"
    /\ pc = "failed"
    /\ args.path = <<"/", "/", "d">>
    /\ cmds = <<Command("mkdir", <<<<"-", "p">>, <<"/", "/">>>>, 5000)>>
    /\ resp.exitCode = 2

(***************************************************************************)
(* Writes of every short content made of quotes, shell metacharacters,     *)
(* base64 digits, padding and a non-ASCII character, in both encodings.    *)
(***************************************************************************)
MaxContentLen == 3

PayloadContents ==
    SeqsUpTo({"'", ";", "$", " ", "A", "+", "=", "U+00E9"}, MaxContentLen)

NextPayload ==
    \/ WriteStart({<<"f">>, <<"/", "d", "/", "f">>}, PayloadContents, {"utf8", "base64"})
    \/ WriteMkdirFinish(BareResponses)
    \/ WriteFinish(BareResponses) /\ UNCHANGED lastWrite
    \/ Return

SpecPayload == Init /\ [][NextPayload]_vars

(***************************************************************************)
(* C22: for every content and both encodings, the text that write places   *)
(* between the single quotes of echo '...' in its shell line holds only    *)
(* characters of the base64 alphabet A-Z a-z 0-9 + / = (utf8 content is    *)
(* base64-encoded, base64 content loses every other character), so the     *)
(* content neither closes the quote nor adds shell syntax.                 *)
(***************************************************************************)
Letters ==
    {"A", "B", "C", "D", "E", "F", "G", "H", "I", "J", "K", "L", "M", "N", "O", "P", "Q",
     "R", "S", "T", "U", "V", "W", "X", "Y", "Z"}

Base64Chars ==
    Letters \cup {LowerChar(c) : c \in Letters}
    \cup {"0", "1", "2", "3", "4", "5", "6", "7", "8", "9", "+", "/", "="}

EchoPrefix == <<"e", "c", "h", "o", " ", "'">>

\* The position of the first single quote after echo '.
ClosingQuote(script) ==
    CHOOSE k \in (Len(EchoPrefix) + 1)..Len(script) :
        /\ script[k] = "'"
        /\ \A j \in (Len(EchoPrefix) + 1)..(k - 1) : script[j] # "'"

Kept(content) == SelectSeq(content, LAMBDA c : c \in Base64Chars)

PayloadIsBase64 ==
    \A i \in 1..Len(cmds) :
        (op = "write" /\ cmds[i].executable = "sh") =>
            LET script  == cmds[i].args[2]
                k       == ClosingQuote(script)
                payload == SubSeq(script, Len(EchoPrefix) + 1, k - 1)
                lexed   == ShLex(script)
            IN  /\ SubSeq(script, 1, Len(EchoPrefix)) = EchoPrefix
                /\ \A j \in 1..Len(payload) : payload[j] \in Base64Chars
                /\ args.encoding = "base64" => payload = Kept(args.content)
                /\ args.encoding = "utf8" => Len(payload) % 4 = 0
                /\ lexed.ok
                /\ Len(lexed.tokens) = 7
                /\ lexed.tokens[2] = ShWord(payload)
                /\ lexed.tokens[7] = ShWord(args.path)

PayloadIsBase64Witness ==
    /\ op = "write"
    /\ pc = "done"
    /\ args.encoding = "base64"
    /\ args.content = <<"'", ";", "A">>
    /\ ShLex(Running.args[2]).tokens[2] = ShWord(<<"A">>)

(***************************************************************************)
(* C23: the size of every entry of a successful list, and the size of a    *)
(* successful fileInfo, is a non-negative integer equal to the decimal     *)
(* number of the command output; output whose size field is not a decimal  *)
(* number gives no success result: list drops the line, fileInfo reports a *)
(* format error.                                                           *)
(***************************************************************************)
IsDecimal(s) == s # <<>> /\ \A i \in 1..Len(s) : IsDigit(s[i])

ListSizesAreDecimal ==
    ListDone =>
        LET acc == SelectSeq(listing, Accepted)
        IN  /\ Len(result.entries) = Len(acc)
            /\ \A i \in 1..Len(acc) :
                   /\ acc[i].kind # "raw"
                   /\ IsDecimal(acc[i].s)
                   /\ result.entries[i].size = ParseInt(acc[i].s)
                   /\ result.entries[i].size >= 0

FileInfoSizeIsDecimal ==
    FileInfoEndedOk =>
        IF FieldCount(StatOutput) >= 2 /\ IsDecimal(FieldOf(StatOutput, 2))
        THEN pc = "done" =>
                 /\ result.size = ParseInt(FieldOf(StatOutput, 2))
                 /\ result.size >= 0
        ELSE /\ pc = "failed"
             /\ result = NoResult
             /\ error = <<"Unexpected stat output format: ">> \o StatOutput

SizesAreDecimal == ListSizesAreDecimal /\ FileInfoSizeIsDecimal

(***************************************************************************)
(* createDirectory against the sandbox, whose mkdir is that of POSIX:      *)
(* mkdir -p on an existing directory exits 0, mkdir on an existing path    *)
(* exits 1 with "File exists".  Writes put files where a directory may be  *)
(* asked for.                                                              *)
(***************************************************************************)
PosixDirPaths == {<<"/", "d">>, <<"/", "d", "/", "e">>, <<"f">>}

PosixFilePaths == {<<"f">>, <<"/", "d", "/", "e">>}

NextPosixMkdir ==
    \/ CreateDirectoryStart(PosixDirPaths)
    \/ CreateDirectoryFinish(Exec(sandbox, Running))
    \/ WriteStart(PosixFilePaths, {Hello}, {"utf8"})
    \/ WriteMkdirFinish(Exec(sandbox, Running))
    \/ WriteFinish(Exec(sandbox, Running)) /\ UNCHANGED lastWrite
    \/ DeleteStart(PosixDirPaths)
    \/ DeleteFinish(Exec(sandbox, Running))
    \/ Return

SpecPosixMkdir == Init /\ [][NextPosixMkdir]_vars

(***************************************************************************)
(* C24: with a POSIX mkdir, createDirectory returns created: true only if  *)
(* no directory was at the path before the call, and whenever it returns   *)
(* without raising a directory is at the path afterwards, for recursive    *)
(* true and false.                                                         *)
(***************************************************************************)
\* createDirectory returns in this step.
CreateDirectoryReturns == op = "createDirectory" /\ pc = "await" /\ pc' = "done"

CreatedOnlyIfAbsent == result'.created => ~IsDir(sandbox, args.path)

DirectoryAfterwards == IsDir(sandbox', args.path)

CreatedMeansCreated ==
    [][CreateDirectoryReturns => (CreatedOnlyIfAbsent /\ DirectoryAfterwards)]_vars

====
